---- MODULE Spec2Model ----
(***************************************************************************)
(* CelestiaWeb: the planet viewers' selection, navigation, category,      *)
(* search, focus and rotation state, as the page scripts implement it.    *)
(*                                                                         *)
(* Four page scripts are modelled; `page` says which one the browser has  *)
(* loaded:                                                                 *)
(*   "dual"    the dual viewer with categories   (src/unnamed/part_002)   *)
(*   "compare" the dual viewer with text search  (src/unnamed/part_001,   *)
(*             second script, lines 776-1722)                              *)
(*   "browser" the paginated catalog browser     (src/unnamed/part_003)   *)
(*   "system"  the star-system view              (src/solar_view/app.js)  *)
(* Of the dual viewer with text search the model holds what it does not   *)
(* share with the dual viewer with categories: its loader, its init, its  *)
(* navigation over the whole catalog and its two search listeners.        *)
(*                                                                         *)
(* JavaScript strings are sequences of one-character strings, so that     *)
(* toLowerCase and includes are computed, not assumed.  Array indices are *)
(* 0-based as in the source; a TLA+ sequence is read at index + 1.        *)
(***************************************************************************)
EXTENDS Integers, Sequences, FiniteSets, TLC

VARIABLES
    page,                \* which page script runs
    pc,                  \* position of that script's init()
    planets,             \* global `planets`
    solarSystemPlanets,  \* part_002 global
    exoplanets,          \* part_002 global
    viewer,              \* side -> leftViewer / rightViewer object and its panel
    lastFocusedViewer,   \* global `lastFocusedViewer`
    syncActive,          \* 'active' class of the sync-rotation button
    currentPlanetIndex,  \* part_003 global
    currentPlanet,       \* part_003 global
    planetMesh,          \* part_003 global
    rotationAxisLine,    \* part_003 global
    navButtons,          \* part_003: disabled flags of prev-planet / next-planet
    currentPage,         \* part_003 global
    planetsPerPage,      \* part_003 global
    filteredPlanets,     \* part_003 global
    currentFilter,       \* part_003 global
    exoplanetData,       \* solar_view/app.js global
    starSystems,         \* solar_view/app.js global
    planetArg,           \* the record a function is called with on its own
    returned,            \* what that call returned or displayed
    live,                \* side -> render resources created and not disposed
    currentSystem,       \* solar_view/app.js global
    exoplanetMeshes,     \* solar_view/app.js global `exoplanets`: the meshes a click can hit
    sceneObjects,        \* solar_view/app.js: what showSystem and add-planet put in `scene`
    habitableZoneObjects,\* solar_view/app.js global
    currentStar,         \* solar_view/app.js global
    cameraAnimating,     \* solar_view/app.js global
    followingPlanet,     \* solar_view/app.js global
    cameraTransitions,   \* solar_view/app.js: animateCamera callbacks waiting for a frame
    camera,              \* solar_view/app.js: where camera and controls.target are
    position,            \* solar_view/app.js: mesh -> its position
    clock,               \* Date.now() as the frame loop reads it
    resetViewHidden,     \* 'hidden' class of the reset-view button
    autoRotate,          \* part_001 global of the single viewer
    lastOp               \* the handler that ran last, with its arguments

dualVars == <<solarSystemPlanets, exoplanets, viewer, lastFocusedViewer, syncActive>>

selectionVars == <<currentPlanetIndex, currentPlanet, planetMesh, rotationAxisLine, navButtons>>

pageVars == <<currentPage, planetsPerPage, filteredPlanets, currentFilter>>

browserVars == <<selectionVars, pageVars>>

systemVars == <<exoplanetData, starSystems>>

callVars == <<planetArg, returned>>

renderVars == <<live>>

sceneVars ==
    <<currentSystem, exoplanetMeshes, sceneObjects, habitableZoneObjects, currentStar,
      cameraAnimating, followingPlanet, cameraTransitions, camera, position,
      resetViewHidden>>

frameVars == <<sceneVars, clock, autoRotate>>

vars ==
    <<page, pc, planets, dualVars, browserVars, systemVars, callVars, renderVars, frameVars,
      lastOp>>

----------------------------------------------------------------------------
(* Bounds *)

\* Longest catalog document (number of records in a fetched JSON array).
MaxCatalog == 2

\* Longest search query typed into a search box.
MaxQueryLen == 2

\* The catalog browser offers 50, 100 and 200 records per page; the model
\* scales them to 1, 2 and 4 times PageUnit records.
PageUnit == 1

\* Frames a camera transition of the star-system view takes: its 1500 ms or
\* 1200 ms, counted in frames.
TransitionFrames == 2

\* Clicks on the add-planet button the model follows.
MaxAdded == 1

----------------------------------------------------------------------------
(* Strings *)

UpperLetters ==
    <<"A", "B", "C", "D", "E", "F", "G", "H", "I", "J", "K", "L", "M",
      "N", "O", "P", "Q", "R", "S", "T", "U", "V", "W", "X", "Y", "Z">>

LowerLetters ==
    <<"a", "b", "c", "d", "e", "f", "g", "h", "i", "j", "k", "l", "m",
      "n", "o", "p", "q", "r", "s", "t", "u", "v", "w", "x", "y", "z">>

\* String.prototype.toLowerCase on one character.
LowerChar(c) ==
    IF \E i \in DOMAIN UpperLetters : UpperLetters[i] = c
    THEN LowerLetters[CHOOSE i \in DOMAIN UpperLetters : UpperLetters[i] = c]
    ELSE c

toLowerCase(s) == [i \in 1..Len(s) |-> LowerChar(s[i])]

\* String.prototype.includes: q occurs in s as a contiguous substring.
includes(s, q) ==
    \E i \in 0..(Len(s) - Len(q)) : SubSeq(s, i + 1, i + Len(q)) = q

RECURSIVE SeqsUpTo(_, _)
\* All sequences over S of length at most n.
SeqsUpTo(S, n) ==
    IF n = 0 THEN {<<>>}
    ELSE LET shorter == SeqsUpTo(S, n - 1)
         IN  shorter \cup {Append(s, c) : s \in shorter, c \in S}

\* Characters a user types in the model.
QueryChars == {"a", "B"}

Queries == SeqsUpTo(QueryChars, MaxQueryLen)

----------------------------------------------------------------------------
(* Catalog records.  The records of one document are distinct objects; the *)
(* pools below hold pairwise different records, so equality of records     *)
(* coincides with object identity (Array.prototype.indexOf).               *)

null == [null |-> TRUE]

\* Numbers of a record: radius in km, ellipticalOrbit.period in hundredths of
\* a day (365.25 days is 36525), ellipticalOrbit.semiMajorAxis in thousandths
\* of an astronomical unit.
Orbit(period, semiMajorAxis) == [period |-> period, semiMajorAxis |-> semiMajorAxis]

EarthName == <<"E", "a", "r", "t", "h">>
JupiterName == <<"J", "u", "p", "i", "t", "e", "r">>

Earth ==
    [name |-> EarthName, id |-> <<"e">>, system |-> <<"S">>, type |-> "Terrestrial",
     radius |-> 6371, ellipticalOrbit |-> Orbit(36525, 1000)]
Jupiter ==
    [name |-> JupiterName, id |-> <<"j">>, system |-> <<"S">>, type |-> "Gas Giant",
     radius |-> 71492, ellipticalOrbit |-> Orbit(433259, 5203)]
Mars ==
    [name |-> <<"M", "a", "r", "s">>, id |-> <<"m">>, system |-> <<"S">>,
     type |-> "Terrestrial", radius |-> 3390, ellipticalOrbit |-> Orbit(68698, 1524)]

\* Records as part_004 writes them to koiData.json: parseEntry (lines 29-123)
\* gives every record a radius and an ellipticalOrbit, 6371 and 365.25 days
\* unless the entry has a `Radius` or `Period` line, whose number (the regular
\* expression [\d.]+ admits 0) replaces the default.  P1 is an entry with
\* `Radius 0`, P3 an entry with `Period 0`.
P1 ==
    [name |-> <<"A", "b">>, id |-> <<"p", "1">>, system |-> <<"b", "a">>,
     type |-> "Terrestrial", radius |-> 0, ellipticalOrbit |-> Orbit(1234, 100)]
P2 ==
    [name |-> <<"a", "a">>, id |-> <<"b", "b">>, system |-> <<"s">>,
     type |-> "Gas Giant", radius |-> 71492, ellipticalOrbit |-> Orbit(36525, 1000)]
P3 ==
    [name |-> <<"B", "s">>, id |-> <<"a", "s">>, system |-> <<"b">>,
     type |-> "Terrestrial", radius |-> 6371, ellipticalOrbit |-> Orbit(0, 1000)]

KoiPool == {P1, P2, P3}

\* A second planet of the system of P2.
P4 ==
    [name |-> <<"c">>, id |-> <<"p", "4">>, system |-> <<"s">>,
     type |-> "Super-Earth", radius |-> 8967, ellipticalOrbit |-> Orbit(1050, 50)]

\* What the star-system view is served as koiData.json: one system of two
\* planets.
SystemDocs == {<<P2, P4>>}

IsInjective(s) == \A i, j \in 1..Len(s) : s[i] = s[j] => i = j

\* koiData.json: any array of at most MaxCatalog distinct records.
KoiDocs == {d \in SeqsUpTo(KoiPool, MaxCatalog) : IsInjective(d)}

\* The first MaxCatalog records of the pool, in order.
FullKoiDoc ==
    CHOOSE d \in KoiDocs :
        Len(d) = MaxCatalog /\ \A i \in 1..Len(d) : d[i] = <<P1, P2, P3>>[i]

\* What the dual viewer with categories is served as solarSystemData.json
\* and koiData.json: the complete solar system with a full catalog, or a
\* solar system without Jupiter with an empty catalog.
DualDocs ==
    {[solar |-> <<Earth, Mars, Jupiter>>, koi |-> FullKoiDoc],
     [solar |-> <<Mars, Earth>>, koi |-> <<>>]}

\* The outcome of fetching and parsing one document: the array, or a throw.
FetchError == [ok |-> FALSE, json |-> <<>>]

Fetched(docs) == {[ok |-> TRUE, json |-> d] : d \in docs} \cup {FetchError}

\* The documents the three loaders with fallbacks ask for, most preferred first.
Sources == <<"koiData.json", "keplerData.json", "exoplanetData.json">>

Attempt(k, outcome) == [source |-> Sources[k], ok |-> outcome.ok, json |-> outcome.json]

\* A loader that asks for all three documents whatever the outcomes.
fetchesOfAll(koi, kepler, legacy) ==
    <<Attempt(1, koi), Attempt(2, kepler), Attempt(3, legacy)>>

\* The fetches the nested try/catch blocks of a loader make, in the order it
\* makes them (part_003 lines 61-132, part_001 lines 863-911, solar_view/app.js
\* lines 71-131): the fetch of a catch block runs only when the try block
\* before it threw.
fetches(koi, kepler, legacy) ==
    <<Attempt(1, koi)>> \o
    (IF koi.ok THEN <<>>
     ELSE <<Attempt(2, kepler)>> \o
          (IF kepler.ok THEN <<>> ELSE <<Attempt(3, legacy)>>))

\* exoplanetData.json, the legacy schema: records without id, radius or
\* ellipticalOrbit; orbitalPeriod is optional.
L1 == [name |-> <<"a", "b">>, system |-> <<"s">>, type |-> "Gas Giant", orbitalPeriod |-> 1050]
L2 == [name |-> <<"B">>, system |-> <<"a">>, type |-> "Super-Earth"]

\* `planet.orbitalPeriod || 365` of the legacy conversion.
orbitalPeriodOr365(planet) ==
    IF "orbitalPeriod" \in DOMAIN planet /\ planet.orbitalPeriod # 0
    THEN planet.orbitalPeriod
    ELSE 36500

\* The radius the legacy conversion infers from the type.
radiusOfType(type) ==
    IF type = "Gas Giant" THEN 71492
    ELSE IF type = "Hot Jupiter" THEN 47898
    ELSE IF type = "Super-Earth" THEN 8967
    ELSE 6371

LegacyDocs == {d \in SeqsUpTo({L1, L2}, MaxCatalog) : IsInjective(d)}

Digit(i) == <<"0", "1", "2", "3", "4", "5", "6", "7", "8", "9">>[i + 1]

\* The conversion of a legacy document, part_001 lines 881-904 and part_003
\* lines 79-101: id is `FALLBACK_${index}`, name, system and type are copied,
\* radius follows the type and the period defaults to 365 days.
convertLegacy(fallbackData) ==
    [i \in 1..Len(fallbackData) |->
        [name |-> fallbackData[i].name,
         id |-> <<"F", "A", "L", "L", "B", "A", "C", "K", "_", Digit(i - 1)>>,
         system |-> fallbackData[i].system,
         type |-> fallbackData[i].type,
         radius |-> radiusOfType(fallbackData[i].type),
         ellipticalOrbit |-> Orbit(orbitalPeriodOr365(fallbackData[i]), 1000)]]

\* Array.prototype.indexOf: the 0-based index of the first occurrence, or -1.
indexOf(arr, x) ==
    IF \E i \in 1..Len(arr) : arr[i] = x
    THEN (CHOOSE i \in 1..Len(arr) : arr[i] = x /\ \A j \in 1..(i - 1) : arr[j] # x) - 1
    ELSE -1

Sides == {"left", "right"}

Other(side) == IF side = "left" THEN "right" ELSE "left"

Categories == {"earth", "jupiter", "exoplanets"}

KeyCodes == {"ArrowLeft", "ArrowRight", "Space", "KeyR", "KeyI"}

----------------------------------------------------------------------------
(* The dual viewer with categories, src/unnamed/part_002 *)

\* The viewer object literal, with the state of that side's panel elements:
\* prev/next buttons, search select, camera.  Whether the page shows the
\* search select before the first category change is the page's markup,
\* which is not part of the scripts: searchShown is either.
NewViewer(index, searchShown) ==
    [currentPlanetIndex |-> index,
     currentPlanet |-> null,
     planetMesh |-> null,
     rotationAxisLine |-> null,
     autoRotate |-> TRUE,
     availablePlanets |-> <<>>,
     prevDisabled |-> FALSE,
     nextDisabled |-> FALSE,
     searchVisible |-> searchShown,
     cameraHome |-> TRUE]

leftViewer == viewer["left"]

rightViewer == viewer["right"]

getPlanetsForCategory(category) ==
    CASE category = "earth" ->
            SelectSeq(solarSystemPlanets, LAMBDA p : p.name = EarthName)
      [] category = "jupiter" ->
            SelectSeq(solarSystemPlanets, LAMBDA p : p.name = JupiterName)
      [] category = "exoplanets" -> exoplanets
      [] OTHER -> exoplanets

Min(a, b) == IF a < b THEN a ELSE b

Max(a, b) == IF a > b THEN a ELSE b

earthRadius == 6371

\* A scale factor is held in units of 1 / (10 * earthRadius), which makes
\* radius / earthRadius and the two clamps 0.3 and 5 whole numbers.
ScaleOne == 10 * earthRadius
ScaleMin == 3 * earthRadius
ScaleMax == 50 * earthRadius

\* `planetData.radius || 6371`: an absent or zero radius gives 6371.
radiusOr6371(planetData) ==
    IF "radius" \in DOMAIN planetData /\ planetData.radius # 0
    THEN planetData.radius
    ELSE 6371

\* radius / earthRadius without the clamps.
scaleFactorUnclamped(planetData) == 10 * radiusOr6371(planetData)

\* scaleFactor of createPlanet, lines 564-566:
\* Math.min(Math.max(radius / earthRadius, 0.3), 5).
scaleFactor(planetData) ==
    Min(Max(10 * radiusOr6371(planetData), ScaleMin), ScaleMax)

\* The mesh built for a record: mesh.userData is the record, the sphere's
\* radius is planetSize times scaleFactor.
createPlanet(planetData) ==
    [userData |-> planetData, scaleFactor |-> scaleFactor(planetData), rotationY |-> 0]

\* The axis group built for a record's mesh.
createRotationAxis(planetData) == [axisOf |-> planetData, rotationY |-> 0]

updateNavigation(v) ==
    [v EXCEPT !.prevDisabled = (v.currentPlanetIndex = 0),
              !.nextDisabled = (v.currentPlanetIndex = Len(v.availablePlanets) - 1)]

\* A showPlanet that clamps its index into the list instead of rejecting it.
showPlanetClamped(v, index) ==
    LET n == Len(v.availablePlanets)
        clamped == IF index < 0 THEN 0 ELSE IF index >= n THEN n - 1 ELSE index
    IN  IF n = 0 THEN v
        ELSE updateNavigation(
                [v EXCEPT !.currentPlanetIndex = clamped,
                          !.currentPlanet = v.availablePlanets[clamped + 1],
                          !.planetMesh = createPlanet(v.availablePlanets[clamped + 1]),
                          !.rotationAxisLine = createRotationAxis(v.availablePlanets[clamped + 1])])

showPlanet(v, index) ==
    IF index < 0 \/ index >= Len(v.availablePlanets) THEN v
    ELSE updateNavigation(
            [v EXCEPT !.currentPlanetIndex = index,
                      !.currentPlanet = v.availablePlanets[index + 1],
                      !.planetMesh = createPlanet(v.availablePlanets[index + 1]),
                      !.rotationAxisLine = createRotationAxis(v.availablePlanets[index + 1])])

\* A changePlanetCategory that shows the record at the index the viewer had,
\* without going back to the first record.
changePlanetCategoryKeepingIndex(v, category) ==
    LET categoryPlanets == getPlanetsForCategory(category)
        v1 == [v EXCEPT !.availablePlanets = categoryPlanets,
                        !.searchVisible = (category = "exoplanets")]
        v2 == IF Len(categoryPlanets) > 0 THEN showPlanet(v1, v.currentPlanetIndex) ELSE v1
    IN  updateNavigation(v2)

changePlanetCategory(v, category) ==
    LET categoryPlanets == getPlanetsForCategory(category)
        v1 == [v EXCEPT !.availablePlanets = categoryPlanets,
                        !.currentPlanetIndex = 0,
                        !.searchVisible = (category = "exoplanets")]
        v2 == IF Len(categoryPlanets) > 0 THEN showPlanet(v1, 0) ELSE v1
    IN  updateNavigation(v2)

nextPlanet(v) ==
    IF v.currentPlanetIndex < Len(v.availablePlanets) - 1
    THEN showPlanet(v, v.currentPlanetIndex + 1)
    ELSE v

previousPlanet(v) ==
    IF v.currentPlanetIndex > 0
    THEN showPlanet(v, v.currentPlanetIndex - 1)
    ELSE v

toggleAutoRotate(v) == [v EXCEPT !.autoRotate = ~v.autoRotate]

\* A sync that toggles each viewer's own flag.
syncRotationMirrored(vw) ==
    [vw EXCEPT !["left"].autoRotate = ~vw["left"].autoRotate,
               !["right"].autoRotate = ~vw["right"].autoRotate]

\* syncRotation, lines 1018-1039, on the pair of viewers vw.
syncRotation(vw) ==
    LET newState == ~vw["left"].autoRotate
    IN  [vw EXCEPT !["left"].autoRotate = newState,
                   !["right"].autoRotate = newState]

\* A resetCamera that also goes back to the first record of the list.
resetCameraAndSelection(v) == showPlanet([v EXCEPT !.cameraHome = TRUE], 0)

resetCamera(v) == [v EXCEPT !.cameraHome = TRUE]

\* toggleInfo changes only the class and the label of the side's info panel,
\* which no other handler reads: the viewer object is left as it is.
toggleInfo(v) == v

\* animate, lines 1082 and 1099: a frame advances the rotation of a viewer's
\* planet, and renderer.render draws it, when the viewer holds a mesh.
animatesPlanet(v) == v.planetMesh # null /\ v.currentPlanet # null

----------------------------------------------------------------------------
(* Handlers of the dual viewer with categories *)

\* What lastOp holds: the handler, the side it was directed at, its argument,
\* and what it found before it ran (`from`).
Op(name, side, arg, from) == [op |-> name, side |-> side, arg |-> arg, from |-> from]

Listening == page = "dual" /\ pc \in {"settling", "running"}

\* init(), lines 46-80, from the resolution of loadPlanetData (lines 105-129)
\* to the start of the frame loop.  ok = FALSE is a failed fetch or parse of
\* either document: the catch block empties all three arrays.
init(ok, solarDoc, koiDoc) ==
    /\ page = "dual" /\ pc = "loading"
    /\ solarSystemPlanets' = IF ok THEN solarDoc ELSE <<>>
    /\ exoplanets' = IF ok THEN koiDoc ELSE <<>>
    /\ planets' = IF ok THEN koiDoc ELSE <<>>
    /\ viewer' = [viewer EXCEPT
          !["left"].availablePlanets =
              IF ok THEN SelectSeq(solarDoc, LAMBDA p : p.name = EarthName) ELSE <<>>,
          !["right"].availablePlanets =
              IF ok THEN SelectSeq(solarDoc, LAMBDA p : p.name = JupiterName) ELSE <<>>]
    /\ pc' = "settling"
    /\ lastOp' = Op("init", "both", "-", "-")
    /\ UNCHANGED <<page, systemVars, callVars, renderVars, frameVars, lastFocusedViewer, syncActive, browserVars>>

\* The setTimeout callback of init(), lines 68-74.
initialCategories ==
    /\ page = "dual" /\ pc = "settling"
    /\ viewer' = [viewer EXCEPT
          !["left"] = changePlanetCategory(viewer["left"], "earth"),
          !["right"] = changePlanetCategory(viewer["right"], "jupiter")]
    /\ pc' = "running"
    /\ lastOp' = Op("initialCategories", "both", "-", "-")
    /\ UNCHANGED <<page, systemVars, callVars, renderVars, frameVars, planets, solarSystemPlanets, exoplanets,
                   lastFocusedViewer, syncActive, browserVars>>

\* A handler whose result lands in both viewer objects.
OnBothViewers(side, v, op) ==
    /\ Listening
    /\ viewer' = [s \in Sides |-> v]
    /\ lastOp' = op
    /\ UNCHANGED <<page, systemVars, callVars, renderVars, frameVars, pc, planets, solarSystemPlanets, exoplanets,
                   lastFocusedViewer, syncActive, browserVars>>

\* A handler that rewrites one viewer and nothing else.
OnViewer(side, v, op) ==
    /\ Listening
    /\ viewer' = [viewer EXCEPT ![side] = v]
    /\ lastOp' = op
    /\ UNCHANGED <<page, systemVars, callVars, renderVars, frameVars, pc, planets, solarSystemPlanets, exoplanets,
                   lastFocusedViewer, syncActive, browserVars>>

clickPrev(side) ==
    OnViewer(side, previousPlanet(viewer[side]), Op("previousPlanet", side, "-", viewer[side].currentPlanetIndex))

clickNext(side) ==
    OnViewer(side, nextPlanet(viewer[side]), Op("nextPlanet", side, "-", viewer[side].currentPlanetIndex))

clickAutoRotate(side) ==
    OnViewer(side, toggleAutoRotate(viewer[side]), Op("toggleAutoRotate", side, "-", "-"))

clickReset(side) ==
    OnViewer(side, resetCamera(viewer[side]), Op("resetCamera", side, "-", "-"))

clickToggleInfo(side) ==
    OnViewer(side, toggleInfo(viewer[side]), Op("toggleInfo", side, "-", "-"))

\* 'change' on a category dropdown, lines 887-888.
categoryChange(side, category) ==
    OnViewer(side, changePlanetCategory(viewer[side], category),
             Op("changePlanetCategory", side, category, viewer[side].currentPlanetIndex))

\* 'change' on a search select, lines 974-979.  The options carry the
\* indices of `planets` as populateSelect wrote them when the listeners were
\* installed; the select can be operated while it is displayed.
searchSelect(side, selectedIndex) ==
    /\ viewer[side].searchVisible
    /\ OnViewer(side, showPlanet(viewer[side], selectedIndex),
                Op("searchSelect", side, selectedIndex, viewer[side]))

\* The user drags a viewer's canvas: OrbitControls moves that camera.
dragCamera(side) ==
    /\ viewer[side].cameraHome
    /\ OnViewer(side, [viewer[side] EXCEPT !.cameraHome = FALSE],
                Op("dragCamera", side, "-", "-"))

\* 'click' on a viewer panel, lines 895-896.  A click on a control inside
\* the panel reaches this listener after the control's own.
setFocus(side) ==
    /\ Listening
    /\ lastFocusedViewer' = side
    /\ lastOp' = Op("setFocus", side, "-", "-")
    /\ UNCHANGED <<page, systemVars, callVars, renderVars, frameVars, pc, planets, solarSystemPlanets, exoplanets, viewer, syncActive,
                   browserVars>>

\* The command a key code stands for, lines 994-1015, applied to viewer v.
keyCommand(code, v) ==
    CASE code = "ArrowLeft" -> previousPlanet(v)
      [] code = "ArrowRight" -> nextPlanet(v)
      [] code = "Space" -> toggleAutoRotate(v)
      [] code = "KeyR" -> resetCamera(v)
      [] code = "KeyI" -> toggleInfo(v)
      [] OTHER -> v

\* A handleKeyboard that always takes the left viewer.
handleKeyboardOnLeft(code) ==
    OnViewer("left", keyCommand(code, viewer["left"]),
             Op("handleKeyboard", "left", code, viewer["left"].currentPlanetIndex))

handleKeyboard(code) ==
    LET side == IF lastFocusedViewer = "left" THEN "left" ELSE "right"
        v == viewer[side]
    IN  OnViewer(side, keyCommand(code, v),
                 Op("handleKeyboard", side, code, v.currentPlanetIndex))

\* 'click' on sync-rotation, line 891: syncRotation, which also gives the
\* button the class 'active' exactly when the new state is on.
clickSyncRotation ==
    LET newState == ~leftViewer.autoRotate
    IN  /\ Listening
        /\ viewer' = syncRotation(viewer)
        /\ syncActive' = newState
        /\ lastOp' = Op("syncRotation", "both", "-",
                        [left |-> leftViewer.autoRotate, right |-> rightViewer.autoRotate])
        /\ UNCHANGED <<page, systemVars, callVars, renderVars, frameVars, pc, planets, solarSystemPlanets, exoplanets,
                       lastFocusedViewer, browserVars>>

resetBothCameras ==
    /\ Listening
    /\ viewer' = [viewer EXCEPT !["left"] = resetCamera(viewer["left"]),
                                !["right"] = resetCamera(viewer["right"])]
    /\ lastOp' = Op("resetBothCameras", "both", "-",
                    [left |-> leftViewer.cameraHome, right |-> rightViewer.cameraHome])
    /\ UNCHANGED <<page, systemVars, callVars, renderVars, frameVars, pc, planets, solarSystemPlanets, exoplanets,
                   lastFocusedViewer, syncActive, browserVars>>

----------------------------------------------------------------------------
(* The dual viewer with text search, src/unnamed/part_001 lines 776-1722. *)
(* Its viewers have no availablePlanets: every function reads `planets`.  *)

updateNavigationCompare(v) ==
    [v EXCEPT !.prevDisabled = (v.currentPlanetIndex = 0),
              !.nextDisabled = (v.currentPlanetIndex = Len(planets) - 1)]

showPlanetIn(catalog, v, index) ==
    IF index < 0 \/ index >= Len(catalog) THEN v
    ELSE [v EXCEPT !.currentPlanetIndex = index,
                   !.currentPlanet = catalog[index + 1],
                   !.planetMesh = createPlanet(catalog[index + 1]),
                   !.rotationAxisLine = createRotationAxis(catalog[index + 1]),
                   !.prevDisabled = (index = 0),
                   !.nextDisabled = (index = Len(catalog) - 1)]

showPlanetCompare(v, index) == showPlanetIn(planets, v, index)

nextPlanetCompare(v) ==
    IF v.currentPlanetIndex < Len(planets) - 1
    THEN showPlanetCompare(v, v.currentPlanetIndex + 1)
    ELSE v

previousPlanetCompare(v) ==
    IF v.currentPlanetIndex > 0
    THEN showPlanetCompare(v, v.currentPlanetIndex - 1)
    ELSE v

\* loadPlanetData of part_001 (lines 863-911): KOI, then Kepler, then the
\* converted legacy document, then the empty array.
loadPlanetDataCompare(koi, kepler, legacy) ==
    IF koi.ok THEN koi.json
    ELSE IF kepler.ok THEN kepler.json
    ELSE IF legacy.ok THEN convertLegacy(legacy.json)
    ELSE <<>>

\* The records the 'input' handler's filter keeps (lines 1535-1539).
inputMatches(query) ==
    SelectSeq(planets,
              LAMBDA planet :
                  \/ includes(toLowerCase(planet.name), query)
                  \/ includes(toLowerCase(planet.id), query)
                  \/ includes(toLowerCase(planet.system), query))

\* The records the 'keypress' handler's find tests true (lines 1552-1555).
keypressMatches(query) ==
    SelectSeq(planets,
              LAMBDA planet :
                  \/ includes(toLowerCase(planet.name), query)
                  \/ includes(toLowerCase(planet.id), query))

\* The 'input' listener of setupSearch, lines 1530-1547, on a box holding value.
searchInputHandler(v, value) ==
    LET query == toLowerCase(value)
        matches == inputMatches(query)
    IN  IF query = <<>> THEN v
        ELSE IF Len(matches) = 1
             THEN showPlanetCompare(v, indexOf(planets, matches[1]))
             ELSE v

\* The 'keypress' listener of setupSearch for Enter, lines 1549-1563.
searchEnterHandler(v, value) ==
    LET query == toLowerCase(value)
        found == keypressMatches(query)
    IN  IF Len(found) > 0
        THEN showPlanetCompare(v, indexOf(planets, found[1]))
        ELSE v

ListeningCompare == page = "compare" /\ pc = "running"

\* init() of part_001, lines 819-842, from the resolution of loadPlanetData.
initCompare(koi, kepler, legacy) ==
    LET loaded == loadPlanetDataCompare(koi, kepler, legacy)
    IN  /\ page = "compare" /\ pc = "loading"
        /\ planets' = loaded
        /\ viewer' = [viewer EXCEPT
              !["left"] = IF Len(loaded) > 0
                          THEN showPlanetIn(loaded, viewer["left"], 0)
                          ELSE viewer["left"],
              !["right"] = IF Len(loaded) > 1
                           THEN showPlanetIn(loaded, viewer["right"], 1)
                           ELSE viewer["right"]]
        /\ pc' = "running"
        /\ lastOp' = Op("init", "both", fetches(koi, kepler, legacy), "-")
        /\ UNCHANGED <<page, systemVars, callVars, renderVars, frameVars, solarSystemPlanets, exoplanets, lastFocusedViewer,
                       syncActive, browserVars>>

OnViewerCompare(side, v, op) ==
    /\ ListeningCompare
    /\ viewer' = [viewer EXCEPT ![side] = v]
    /\ lastOp' = op
    /\ UNCHANGED <<page, systemVars, callVars, renderVars, frameVars, pc, planets, solarSystemPlanets, exoplanets,
                   lastFocusedViewer, syncActive, browserVars>>

clickPrevCompare(side) ==
    OnViewerCompare(side, previousPlanetCompare(viewer[side]),
                    Op("previousPlanet", side, "-", viewer[side].currentPlanetIndex))

clickNextCompare(side) ==
    OnViewerCompare(side, nextPlanetCompare(viewer[side]),
                    Op("nextPlanet", side, "-", viewer[side].currentPlanetIndex))

\* How many records the 'input' filter keeps for a box content.
MatchCount(value) == Len(inputMatches(toLowerCase(value)))

MatchClass(n) == IF n = 0 THEN "none" ELSE IF n = 1 THEN "one" ELSE "many"

\* The user edits a search box; the box then holds value.
searchInput(side, value) ==
    OnViewerCompare(side, searchInputHandler(viewer[side], value),
                    Op("searchInput", side,
                       IF value = <<>> THEN "empty" ELSE MatchClass(MatchCount(value)),
                       viewer[side]))

\* The user presses Enter in a search box holding value.  The box holds what
\* the last edit left in it: the 'input' listener has emptied it (line 1545)
\* if that edit matched exactly one record.
searchEnter(side, value) ==
    /\ value = <<>> \/ MatchCount(value) # 1
    /\ OnViewerCompare(side, searchEnterHandler(viewer[side], value),
                       Op("searchEnter", side,
                          IF value = <<>> THEN "empty" ELSE MatchClass(MatchCount(value)),
                          viewer[side]))

----------------------------------------------------------------------------
(* The paginated catalog browser, src/unnamed/part_003 *)

\* The placeholder record of loadPlanetData, lines 104-127.
ExamplePlanet ==
    [name |-> <<"E", "x", "a", "m", "p", "l", "e", " ", "P", "l", "a", "n", "e", "t">>,
     id |-> <<"E", "X", "A", "M", "P", "L", "E", "_", "0", "1">>,
     system |-> <<"U", "n", "k", "n", "o", "w", "n", " ", "S", "y", "s", "t", "e", "m">>,
     type |-> "Rocky",
     radius |-> 6371,
     ellipticalOrbit |-> Orbit(36525, 1000)]

\* loadPlanetData of part_003 (lines 61-132): KOI, then Kepler, then the
\* converted legacy document, then the placeholder.
loadPlanetDataBrowser(koi, kepler, legacy) ==
    IF koi.ok THEN koi.json
    ELSE IF kepler.ok THEN kepler.json
    ELSE IF legacy.ok THEN convertLegacy(legacy.json)
    ELSE <<ExamplePlanet>>

\* The options of the planet-type-filter select, lines 1021-1026.
FilterOptions ==
    {"all", "Gas Giant", "Neptune-like", "Sub-Neptune", "Super-Earth", "Terrestrial"}

\* The options of the planets-per-page select, lines 1029-1031.
PerPageOptions == {PageUnit, 2 * PageUnit, 4 * PageUnit}

\* Math.ceil(a / b) for a >= 0, b > 0.
CeilDiv(a, b) == (a + b - 1) \div b

\* The single viewer's selection globals as one value.
Selection ==
    [currentPlanetIndex |-> currentPlanetIndex,
     currentPlanet |-> currentPlanet,
     planetMesh |-> planetMesh,
     rotationAxisLine |-> rotationAxisLine,
     navButtons |-> navButtons]

SetSelection(sel) ==
    /\ currentPlanetIndex' = sel.currentPlanetIndex
    /\ currentPlanet' = sel.currentPlanet
    /\ planetMesh' = sel.planetMesh
    /\ rotationAxisLine' = sel.rotationAxisLine
    /\ navButtons' = sel.navButtons

\* showPlanet of part_003, lines 656-704, on the catalog `catalog`.
showPlanetBrowser(catalog, sel, index) ==
    IF index < 0 \/ index >= Len(catalog) THEN sel
    ELSE [currentPlanetIndex |-> index,
          currentPlanet |-> catalog[index + 1],
          planetMesh |-> createPlanet(catalog[index + 1]),
          rotationAxisLine |-> createRotationAxis(catalog[index + 1]),
          navButtons |-> [prevDisabled |-> (index = 0),
                          nextDisabled |-> (index = Len(catalog) - 1)]]

nextPlanetBrowser(sel) ==
    IF sel.currentPlanetIndex < Len(planets) - 1
    THEN showPlanetBrowser(planets, sel, sel.currentPlanetIndex + 1)
    ELSE sel

previousPlanetBrowser(sel) ==
    IF sel.currentPlanetIndex > 0
    THEN showPlanetBrowser(planets, sel, sel.currentPlanetIndex - 1)
    ELSE sel

\* applyFilter, lines 1073-1098.
applyFilter(filter) ==
    IF filter = "all" THEN planets
    ELSE SelectSeq(planets, LAMBDA planet : planet.type = filter)

\* The option values updatePlanetSelect (lines 980-1000) writes for the
\* current page: the indices in filteredPlanets of the page's records.
pageOptionValues ==
    LET startIndex == currentPage * planetsPerPage
        endIndex == Min(startIndex + planetsPerPage, Len(filteredPlanets))
    IN  {indexOf(filteredPlanets, filteredPlanets[i + 1]) : i \in startIndex..(endIndex - 1)}

ListeningBrowser == page = "browser" /\ pc = "running"

\* init() of part_003, lines 16-40, from the resolution of loadPlanetData.
initBrowser(koi, kepler, legacy) ==
    LET loaded == loadPlanetDataBrowser(koi, kepler, legacy)
    IN  /\ page = "browser" /\ pc = "loading"
        /\ planets' = loaded
        /\ filteredPlanets' = loaded
        /\ SetSelection(IF Len(loaded) > 0
                        THEN showPlanetBrowser(loaded, Selection, 0)
                        ELSE Selection)
        /\ pc' = "running"
        /\ lastOp' = Op("init", "-", fetches(koi, kepler, legacy), "-")
        /\ UNCHANGED <<page, systemVars, callVars, renderVars, frameVars, dualVars, currentPage, planetsPerPage, currentFilter>>

clickPrevBrowser ==
    /\ ListeningBrowser
    /\ SetSelection(previousPlanetBrowser(Selection))
    /\ lastOp' = Op("previousPlanet", "-", "-", currentPlanetIndex)
    /\ UNCHANGED <<page, systemVars, callVars, renderVars, frameVars, pc, planets, dualVars, pageVars>>

clickNextBrowser ==
    /\ ListeningBrowser
    /\ SetSelection(nextPlanetBrowser(Selection))
    /\ lastOp' = Op("nextPlanet", "-", "-", currentPlanetIndex)
    /\ UNCHANGED <<page, systemVars, callVars, renderVars, frameVars, pc, planets, dualVars, pageVars>>

\* handlePlanetSelect, lines 1002-1008, for the option of value selectedIndex.
handlePlanetSelect(selectedIndex) ==
    LET planetIndex == indexOf(planets, filteredPlanets[selectedIndex + 1])
    IN  /\ ListeningBrowser
        /\ selectedIndex \in pageOptionValues
        /\ SetSelection(showPlanetBrowser(planets, Selection, planetIndex))
        /\ lastOp' = Op("handlePlanetSelect", "-", selectedIndex, "-")
        /\ UNCHANGED <<page, systemVars, callVars, renderVars, frameVars, pc, planets, dualVars, pageVars>>

\* 'click' on prev-page, lines 1044-1049.
prevPage ==
    /\ ListeningBrowser
    /\ currentPage' = IF currentPage > 0 THEN currentPage - 1 ELSE currentPage
    /\ lastOp' = Op("prevPage", "-", "-", currentPage)
    /\ UNCHANGED <<page, systemVars, callVars, renderVars, frameVars, pc, planets, dualVars, selectionVars,
                   planetsPerPage, filteredPlanets, currentFilter>>

\* A next-page listener that also displays the first record of the catalog.
nextPageShowingFirst ==
    LET maxPages == CeilDiv(Len(filteredPlanets), planetsPerPage)
    IN  /\ ListeningBrowser
        /\ currentPage' = IF currentPage < maxPages - 1 THEN currentPage + 1 ELSE currentPage
        /\ SetSelection(showPlanetBrowser(planets, Selection, 0))
        /\ lastOp' = Op("nextPage", "-", "-", currentPage)
        /\ UNCHANGED <<page, systemVars, callVars, renderVars, frameVars, pc, planets, dualVars,
                       planetsPerPage, filteredPlanets, currentFilter>>

\* 'click' on next-page, lines 1051-1057.
nextPage ==
    LET maxPages == CeilDiv(Len(filteredPlanets), planetsPerPage)
    IN  /\ ListeningBrowser
        /\ currentPage' = IF currentPage < maxPages - 1 THEN currentPage + 1 ELSE currentPage
        /\ lastOp' = Op("nextPage", "-", "-", currentPage)
        /\ UNCHANGED <<page, systemVars, callVars, renderVars, frameVars, pc, planets, dualVars, selectionVars,
                       planetsPerPage, filteredPlanets, currentFilter>>

\* A type-filter listener that leaves the page where it is.
typeFilterChangeKeepingPage(value) ==
    /\ ListeningBrowser
    /\ currentFilter' = value
    /\ filteredPlanets' = applyFilter(value)
    /\ lastOp' = Op("typeFilterChange", "-", value, currentPage)
    /\ UNCHANGED <<page, systemVars, callVars, renderVars, frameVars, pc, planets, dualVars, selectionVars,
                   currentPage, planetsPerPage>>

\* 'change' on planet-type-filter, lines 1059-1064.
typeFilterChange(value) ==
    /\ ListeningBrowser
    /\ currentFilter' = value
    /\ currentPage' = 0
    /\ filteredPlanets' = applyFilter(value)
    /\ lastOp' = Op("typeFilterChange", "-", value, currentPage)
    /\ UNCHANGED <<page, systemVars, callVars, renderVars, frameVars, pc, planets, dualVars, selectionVars, planetsPerPage>>

\* 'change' on planets-per-page, lines 1066-1070.
perPageChange(value) ==
    /\ ListeningBrowser
    /\ planetsPerPage' = value
    /\ currentPage' = 0
    /\ lastOp' = Op("perPageChange", "-", value, currentPage)
    /\ UNCHANGED <<page, systemVars, callVars, renderVars, frameVars, pc, planets, dualVars, selectionVars,
                   filteredPlanets, currentFilter>>

----------------------------------------------------------------------------
(* The star-system view, src/solar_view/app.js *)

\* The conversion of a KOI or Kepler document, lines 80-94 and 104-118.  Of
\* the converted record the model keeps name, type, system and orbitalPeriod.
convertCatalog(data) ==
    [i \in 1..Len(data) |->
        [name |-> data[i].name,
         type |-> data[i].type,
         system |-> data[i].system,
         orbitalPeriod |-> data[i].ellipticalOrbit.period]]

\* loadExoplanetData, lines 71-131: KOI, then Kepler, both converted, then the
\* legacy document as it is; the last catch block only logs, so exoplanetData
\* keeps the value `before` it had.
loadExoplanetData(before, koi, kepler, legacy) ==
    IF koi.ok THEN convertCatalog(koi.json)
    ELSE IF kepler.ok THEN convertCatalog(kepler.json)
    ELSE IF legacy.ok THEN legacy.json
    ELSE before

\* groupPlanetsBySystem, lines 134-150.
groupPlanetsBySystem(data) ==
    [systemName \in {data[i].system : i \in 1..Len(data)} |->
        [name |-> systemName,
         planets |-> SelectSeq(data, LAMBDA planet : planet.system = systemName)]]

\* The value 'overview' of currentSystem and of the system selector.
overview == <<"o", "v", "e", "r", "v", "i", "e", "w">>

Range(f) == {f[i] : i \in DOMAIN f}

\* A THREE object made for `of`.  Objects made by different showSystem calls
\* are different objects: `view` tells the objects made since the last
\* showSystem call ("current") from those made before it ("earlier"); two
\* earlier views are not told apart.
Obj(kind, of, view) == [kind |-> kind, of |-> of, view |-> view]

Earlier(object) == [object EXCEPT !.view = "earlier"]

\* The test of line 651: planet.type.includes('Earth'), === 'Ocean World' or
\* includes('Jupiter'), on the types of the catalogs and of
\* generateRandomPlanetData.
hasAtmosphere(type) == type \in {"Super-Earth", "Ocean World", "Hot Jupiter"}

atmosphereOf(exoplanet) == Obj("atmosphere", exoplanet.of, exoplanet.view)

orbitOf(exoplanet) == Obj("orbit", exoplanet.of, exoplanet.view)

\* The position createGalaxyOverview and createPlanetInSystem give a mesh;
\* a frame that moves the mesh writes the time it read.
InitialPosition == 0 - 1

\* camera.position and controls.target: where resetCamera puts them, where a
\* running transition has them, and beside a planet at the position it had.
CameraHome(systemName) == [at |-> IF systemName = overview THEN "overview" ELSE "system"]

CameraMoving(left) == [at |-> "moving", left |-> left]

CameraOnPlanet(planet, planetPosition) ==
    [at |-> "planet", planet |-> planet, position |-> planetPosition]

\* The globals of the star-system view as one value.
SceneState ==
    [currentSystem |-> currentSystem,
     exoplanets |-> exoplanetMeshes,
     scene |-> sceneObjects,
     habitableZoneObjects |-> habitableZoneObjects,
     currentStar |-> currentStar,
     cameraAnimating |-> cameraAnimating,
     followingPlanet |-> followingPlanet,
     cameraTransitions |-> cameraTransitions,
     camera |-> camera,
     position |-> position,
     resetViewHidden |-> resetViewHidden]

\* The meshes a variable or a waiting callback still refers to.
ReferredMeshes(s) ==
    (Range(s.exoplanets)
        \cup {s.followingPlanet}
        \cup {t.planet : t \in Range(s.cameraTransitions)}) \ {null}

SetSceneState(s) ==
    /\ currentSystem' = s.currentSystem
    /\ exoplanetMeshes' = s.exoplanets
    /\ sceneObjects' = s.scene
    /\ habitableZoneObjects' = s.habitableZoneObjects
    /\ currentStar' = s.currentStar
    /\ cameraAnimating' = s.cameraAnimating
    /\ followingPlanet' = s.followingPlanet
    /\ cameraTransitions' = s.cameraTransitions
    /\ camera' = s.camera
    /\ position' = [m \in ReferredMeshes(s) |-> s.position[m]]
    /\ resetViewHidden' = s.resetViewHidden

\* position.set of a new mesh.
Placed(pos, meshes) ==
    [m \in DOMAIN pos \cup meshes |-> IF m \in meshes THEN InitialPosition ELSE pos[m]]

\* Object.keys(obj) as an array.
Object_keys(obj) ==
    CHOOSE keys \in [1..Cardinality(DOMAIN obj) -> DOMAIN obj] : Range(keys) = DOMAIN obj

\* clearScene, lines 523-547.
clearScene(s) ==
    LET atmospheres == {atmosphereOf(planet) :
                           planet \in {x \in Range(s.exoplanets) : hasAtmosphere(x.of.type)}}
        star == IF s.currentStar = null THEN {} ELSE {s.currentStar}
    IN  [s EXCEPT !.followingPlanet = null,
                  !.scene = @ \ (Range(s.exoplanets) \cup atmospheres
                                    \cup s.habitableZoneObjects \cup star),
                  !.exoplanets = <<>>,
                  !.habitableZoneObjects = {},
                  !.currentStar = null]

\* createGalaxyOverview, lines 550-584.
createGalaxyOverview(s, systems) ==
    LET keys == Object_keys(systems)
        systemStars == [i \in 1..Len(keys) |->
                           Obj("system", [type |-> "system", systemName |-> keys[i]], "current")]
    IN  [s EXCEPT !.scene = @ \cup Range(systemStars),
                  !.exoplanets = @ \o systemStars,
                  !.position = Placed(@, Range(systemStars))]

\* createPlanetInSystem, lines 617-672.
createPlanetInSystem(s, planet) ==
    LET exoplanet == Obj("planet", planet, "current")
        atmosphere == IF hasAtmosphere(planet.type) THEN {atmosphereOf(exoplanet)} ELSE {}
    IN  [s EXCEPT !.scene = @ \cup atmosphere \cup {exoplanet, orbitOf(exoplanet)},
                  !.exoplanets = Append(@, exoplanet),
                  !.position = Placed(@, {exoplanet})]

RECURSIVE createPlanetsInSystem(_, _)
\* The forEach of createStarSystem, lines 597-600.
createPlanetsInSystem(s, systemPlanets) ==
    IF systemPlanets = <<>> THEN s
    ELSE createPlanetsInSystem(createPlanetInSystem(s, Head(systemPlanets)),
                               Tail(systemPlanets))

\* createCentralStar, lines 603-614.
createCentralStar(s) ==
    LET star == Obj("star", s.currentSystem, "current")
    IN  [s EXCEPT !.currentStar = star, !.scene = @ \cup {star}]

\* createHabitableZone, lines 307-347.
createHabitableZone(s) ==
    LET zone == {Obj(kind, s.currentSystem, "current") :
                    kind \in {"habitableZone", "innerRing", "outerRing"}}
    IN  [s EXCEPT !.scene = @ \cup zone, !.habitableZoneObjects = @ \cup zone]

\* createStarSystem, lines 586-601.
createStarSystem(s, systems, systemName) ==
    IF systemName \notin DOMAIN systems THEN s
    ELSE createPlanetsInSystem(createHabitableZone(createCentralStar(s)),
                               systems[systemName].planets)

\* What clearScene leaves of the objects made so far, as objects of an
\* earlier view: the objects still in the scene, the planet of a waiting
\* callback and the planet the camera stands beside.
AsEarlier(s) ==
    LET targets == {t.planet : t \in Range(s.cameraTransitions)} \ {null}
    IN  [s EXCEPT
            !.scene = {Earlier(object) : object \in @},
            !.cameraTransitions =
                [i \in DOMAIN @ |->
                    IF @[i].planet = null THEN @[i]
                    ELSE [@[i] EXCEPT !.planet = Earlier(@)]],
            !.camera = IF @.at = "planet" THEN [@ EXCEPT !.planet = Earlier(@)] ELSE @,
            !.position =
                [m \in {Earlier(planet) : planet \in targets} |->
                    s.position[CHOOSE planet \in targets : Earlier(planet) = m]]]

\* showSystem, lines 503-521, with resetCamera (lines 681-691) and the
\* reset-view button of updateUIContext (lines 1217 and 1222).
showSystem(s, systems, systemName) ==
    LET cleared == AsEarlier(clearScene(s))
        named == [cleared EXCEPT !.currentSystem = systemName]
        created == IF systemName = overview
                   THEN createGalaxyOverview(named, systems)
                   ELSE createStarSystem(named, systems, systemName)
    IN  [created EXCEPT !.camera = CameraHome(systemName), !.resetViewHidden = TRUE]

\* A camera transition: the animateCamera closure of centerCameraOnPlanet
\* (planet and planetPosition as it captured them) or of
\* animateCameraToSystemView (planet = null), and the frames it still needs.
Transition(planet, planetPosition, left) ==
    [planet |-> planet, planetPosition |-> planetPosition, left |-> left]

\* centerCameraOnPlanet, lines 850-906, up to its first animateCamera() call,
\* which finds no time elapsed and asks for a frame.
centerCameraOnPlanet(s, planet) ==
    IF s.cameraAnimating THEN s
    ELSE [s EXCEPT !.cameraAnimating = TRUE,
                   !.cameraTransitions =
                       Append(@, Transition(planet, s.position[planet], TransitionFrames))]

\* animateCameraToSystemView, lines 1255-1296, up to its first
\* animateCamera() call.
animateCameraToSystemView(s) ==
    [s EXCEPT !.cameraAnimating = TRUE,
              !.cameraTransitions =
                  Append(@, Transition(null, InitialPosition, TransitionFrames))]

\* A resetSystemView that does not look at cameraAnimating.
resetSystemViewUnguarded(s) ==
    animateCameraToSystemView([s EXCEPT !.followingPlanet = null, !.resetViewHidden = TRUE])

\* resetSystemView, lines 1241-1252.
resetSystemView(s) ==
    IF s.cameraAnimating THEN s
    ELSE animateCameraToSystemView([s EXCEPT !.followingPlanet = null,
                                             !.resetViewHidden = TRUE])

\* onMouseClick, lines 743-775, when the ray hits selectedObject.
onMouseClick(s, systems, selectedObject) ==
    IF s.cameraAnimating THEN s
    ELSE IF selectedObject.of.type = "system"
         THEN IF s.currentSystem = overview
              THEN showSystem(s, systems, selectedObject.of.systemName)
              ELSE s
         ELSE centerCameraOnPlanet(s, selectedObject)

\* An animateCamera callback that finds no time elapsed and asks for the next
\* frame.
animateCameraStalled(s, t) == [s EXCEPT !.cameraTransitions = Append(@, t)]

\* One animateCamera callback of a frame, lines 872-902 and 1270-1292: time
\* has advanced by one frame since the callback was asked for.
animateCamera(s, t) ==
    IF t.left > 1
    THEN [s EXCEPT !.camera = CameraMoving(t.left - 1),
                   !.cameraTransitions = Append(@, [t EXCEPT !.left = @ - 1])]
    ELSE IF t.planet = null
         THEN [s EXCEPT !.camera = CameraHome(<<>>),
                        !.cameraAnimating = FALSE]
         ELSE [s EXCEPT !.camera = CameraOnPlanet(t.planet, t.planetPosition),
                        !.cameraAnimating = FALSE,
                        !.followingPlanet = t.planet,
                        !.resetViewHidden = IF s.currentSystem # overview THEN FALSE ELSE @]

RECURSIVE runCallbacks(_, _)
\* The callbacks a frame runs, in the order they were asked for.
runCallbacks(s, queue) ==
    IF queue = <<>> THEN s
    ELSE runCallbacks(animateCamera(s, Head(queue)), Tail(queue))

\* The planets of the displayed system as animate reads them, line 932.
systemPlanetsOf(s, systems) ==
    IF s.currentSystem \in DOMAIN systems THEN systems[s.currentSystem].planets ELSE <<>>

\* The forEach of animate, lines 925-953: a mesh of the displayed system that
\* is not a system star and whose record the system lists is put where the
\* time `now` has it.
orbitalMotion(s, systems, now) ==
    LET systemPlanets == systemPlanetsOf(s, systems)
        moves(planet) ==
            /\ s.currentSystem # overview
            /\ planet.of.type # "system"
            /\ \E i \in 1..Len(systemPlanets) : systemPlanets[i].name = planet.of.name
    IN  [s EXCEPT !.position =
            [m \in DOMAIN @ |->
                IF m \in Range(s.exoplanets) /\ moves(m) THEN now ELSE @[m]]]

\* The camera follow of animate, lines 955-962.
cameraFollow(s) ==
    IF s.followingPlanet # null /\ ~s.cameraAnimating
    THEN [s EXCEPT !.camera = CameraOnPlanet(s.followingPlanet, s.position[s.followingPlanet])]
    ELSE s

\* What renderer.render(scene, camera) draws, line 973.
renderScene(s) == [camera |-> s.camera, position |-> s.position]

\* An animate that moves the camera before it moves the planets.
animateFollowingFirst(s, systems, now) == orbitalMotion(cameraFollow(s), systems, now)

\* animate, lines 921-974, up to the render call.
animate(s, systems, now) == cameraFollow(orbitalMotion(s, systems, now))

\* generateRandomPlanetData, lines 977-1007: a record with a new name and one
\* of the seven types.
RandomTypes == {"Rocky"}

RandomName(n) == <<"R", Digit(n)>>

\* The records generateRandomPlanetData has made so far.
Added(systems) ==
    Cardinality(UNION {{<<name, i>> : i \in {j \in 1..Len(systems[name].planets) :
                                                Head(systems[name].planets[j].name) = "R"}} :
                          name \in DOMAIN systems})

generateRandomPlanetData(n, type, systemName) ==
    [name |-> RandomName(n), type |-> type, system |-> systemName]

\* addRandomStarSystem, lines 1307-1340, with one random planet.
addRandomStarSystem(s, systems, type) ==
    LET systemName == RandomName(Added(systems))
        newSystem == [name |-> systemName,
                      planets |-> <<generateRandomPlanetData(Added(systems), type, systemName)>>]
        added == [name \in DOMAIN systems \cup {systemName} |->
                     IF name = systemName THEN newSystem ELSE systems[name]]
    IN  [starSystems |-> added, scene |-> showSystem(s, added, overview)]

\* addRandomPlanetToCurrentSystem, lines 1343-1360.
addRandomPlanetToCurrentSystem(s, systems, type) ==
    IF s.currentSystem \notin DOMAIN systems
    THEN [starSystems |-> systems, scene |-> s]
    ELSE LET newPlanet == generateRandomPlanetData(Added(systems), type, s.currentSystem)
         IN  [starSystems |-> [systems EXCEPT ![s.currentSystem].planets = Append(@, newPlanet)],
              scene |-> createPlanetInSystem(s, newPlanet)]

\* addRandomPlanet, lines 1298-1304.
addRandomPlanet(s, systems, type) ==
    IF s.currentSystem = overview
    THEN addRandomStarSystem(s, systems, type)
    ELSE addRandomPlanetToCurrentSystem(s, systems, type)

\* init() of the star-system view, lines 17-49: the catalog, its grouping,
\* the listeners, showSystem('overview') and the first animate() call.
initSystem(koi, kepler, legacy) ==
    LET loaded == loadExoplanetData(exoplanetData, koi, kepler, legacy)
        grouped == groupPlanetsBySystem(loaded)
    IN  /\ page = "system" /\ pc = "loading"
        /\ exoplanetData' = loaded
        /\ starSystems' = grouped
        /\ SetSceneState(showSystem(SceneState, grouped, overview))
        /\ pc' = "running"
        /\ lastOp' = Op("init", "-", fetches(koi, kepler, legacy), null)
        /\ UNCHANGED <<page, callVars, renderVars, clock, autoRotate, planets, dualVars,
                       browserVars>>

ListeningSystem == page = "system" /\ pc = "running"

\* What a handler found when it started.
SceneBefore == [cameraAnimating |-> cameraAnimating]

\* What a frame found when it started.
FrameBefore ==
    [cameraAnimating |-> cameraAnimating, followingPlanet |-> followingPlanet, camera |-> camera]

\* A handler that rewrites the scene globals and nothing else.  lastOp holds
\* the arguments of a handler of this page as a tuple, and a frame's argument
\* is what it drew.
OnScene(s, op) ==
    /\ ListeningSystem
    /\ SetSceneState(s)
    /\ lastOp' = op
    /\ UNCHANGED <<page, pc, planets, dualVars, browserVars, systemVars, callVars, renderVars,
                   clock, autoRotate>>

\* 'change' on the system selector, lines 168-169: an option is 'overview' or
\* a key of starSystems.
systemSelectChange(systemName) ==
    /\ systemName \in DOMAIN starSystems \cup {overview}
    /\ OnScene(showSystem(SceneState, starSystems, systemName),
               Op("showSystem", "-", <<[systemName |-> systemName]>>, SceneBefore))

\* 'click' on the canvas (line 407) with the ray hitting selectedObject.
clickObject(selectedObject) ==
    /\ selectedObject \in Range(exoplanetMeshes)
    /\ OnScene(onMouseClick(SceneState, starSystems, selectedObject),
               Op("onMouseClick", "-", <<selectedObject>>, SceneBefore))

\* 'click' on the reset-view button (line 440) while it is displayed.
clickResetView ==
    /\ ~resetViewHidden
    /\ OnScene(resetSystemView(SceneState), Op("resetSystemView", "-", <<>>, SceneBefore))

\* 'click' on the add-planet button (line 415).
clickAddPlanet(type) ==
    LET added == addRandomPlanet(SceneState, starSystems, type)
    IN  /\ ListeningSystem
        /\ Added(starSystems) < MaxAdded
        /\ SetSceneState(added.scene)
        /\ starSystems' = added.starSystems
        /\ lastOp' = Op("addRandomPlanet", "-", <<[type |-> type]>>, SceneBefore)
        /\ UNCHANGED <<page, pc, planets, dualVars, browserVars, exoplanetData, callVars,
                       renderVars, clock, autoRotate>>

\* One animation frame of the star-system view: animate, which was asked for
\* first, then the animateCamera callbacks that wait.  Date.now() has moved on.
frameSystem ==
    LET now == 1 - clock
        drawn == animate(SceneState, starSystems, now)
        after == runCallbacks([drawn EXCEPT !.cameraTransitions = <<>>],
                              drawn.cameraTransitions)
    IN  /\ ListeningSystem
        /\ SetSceneState(after)
        /\ clock' = now
        /\ lastOp' = Op("animate", "-", <<renderScene(drawn)>>, FrameBefore)
        /\ UNCHANGED <<page, pc, planets, dualVars, browserVars, systemVars, callVars,
                       renderVars, autoRotate>>

----------------------------------------------------------------------------
(* The frame loops of the viewers, src/unnamed/part_002 and part_001 *)

\* rotation.y of a mesh, in steps of a full turn of Turn steps.
Turn == 3

\* What a frame adds to rotation.y in the dual viewer, lines 1083-1091: the
\* speed of the record's orbital period, a hundred times that with autoRotate.
finalRotationSpeed(v) == IF v.autoRotate THEN 100 ELSE 1

\* The rotation block of animate for one viewer, lines 1082-1097 and 1100-1115.
rotateViewer(v) ==
    IF v.planetMesh # null /\ v.currentPlanet # null
    THEN LET y == (v.planetMesh.rotationY + finalRotationSpeed(v)) % Turn
         IN  [v EXCEPT !.planetMesh.rotationY = y,
                       !.rotationAxisLine =
                           IF @ # null THEN [@ EXCEPT !.rotationY = y] ELSE @]
    ELSE v

\* What renderer.render draws of a viewer, lines 1135 and 1138.
renderViewer(v) == IF v.planetMesh # null THEN v.planetMesh.rotationY ELSE 0 - 1

\* animate of the dual viewer, lines 1078-1139: the frame loop runs from the
\* end of init().
animateDual ==
    LET rotated == [side \in Sides |-> rotateViewer(viewer[side])]
    IN  /\ Listening
        /\ viewer' = rotated
        /\ lastOp' = Op("animate", "both",
                        [side \in Sides |-> renderViewer(rotated[side])],
                        [side \in Sides |-> renderViewer(viewer[side])])
        /\ UNCHANGED <<page, systemVars, callVars, renderVars, frameVars, pc, planets,
                       solarSystemPlanets, exoplanets, lastFocusedViewer, syncActive,
                       browserVars>>

\* loadPlanetData of the single viewer, part_001 lines 58-129; its last
\* fallback is the placeholder record the browser page also uses.
loadPlanetDataSingle(koi, kepler, legacy) ==
    IF koi.ok THEN koi.json
    ELSE IF kepler.ok THEN kepler.json
    ELSE IF legacy.ok THEN convertLegacy(legacy.json)
    ELSE <<ExamplePlanet>>

\* showPlanet of the single viewer, part_001 lines 551-582.
showPlanetSingle(catalog, sel, index) ==
    IF index < 0 \/ index >= Len(catalog) THEN sel
    ELSE [sel EXCEPT !.currentPlanetIndex = index,
                     !.currentPlanet = catalog[index + 1],
                     !.planetMesh = createPlanet(catalog[index + 1]),
                     !.navButtons = [prevDisabled |-> (index = 0),
                                     nextDisabled |-> (index = Len(catalog) - 1)]]

\* nextPlanet of the single viewer, part_001 lines 649-653.
nextPlanetSingle(sel) ==
    IF sel.currentPlanetIndex < Len(planets) - 1
    THEN showPlanetSingle(planets, sel, sel.currentPlanetIndex + 1)
    ELSE sel

\* init() of the single viewer, part_001 lines 16-37, from the resolution of
\* loadPlanetData on.
initSingle(koi, kepler, legacy) ==
    LET loaded == loadPlanetDataSingle(koi, kepler, legacy)
    IN  /\ page = "single" /\ pc = "loading"
        /\ planets' = loaded
        /\ SetSelection(IF Len(loaded) > 0
                        THEN showPlanetSingle(loaded, Selection, 0)
                        ELSE Selection)
        /\ pc' = "running"
        /\ lastOp' = Op("init", "-", fetches(koi, kepler, legacy), "-")
        /\ UNCHANGED <<page, systemVars, callVars, renderVars, frameVars, dualVars, pageVars>>

ListeningSingle == page = "single" /\ pc = "running"

\* 'click' on next-planet of the single viewer, part_001 line 705.
clickNextSingle ==
    /\ ListeningSingle
    /\ SetSelection(nextPlanetSingle(Selection))
    /\ lastOp' = Op("nextPlanet", "-", "-", currentPlanetIndex)
    /\ UNCHANGED <<page, systemVars, callVars, renderVars, frameVars, pc, planets, dualVars,
                   pageVars>>

\* 'click' on auto-rotate-btn of the single viewer: toggleAutoRotate,
\* part_001 lines 675-686.
clickAutoRotateSingle ==
    /\ ListeningSingle
    /\ autoRotate' = ~autoRotate
    /\ lastOp' = Op("toggleAutoRotate", "-", "-", "-")
    /\ UNCHANGED <<page, systemVars, callVars, renderVars, sceneVars, clock, pc, planets,
                   dualVars, browserVars>>

\* animate of the single viewer, part_001 lines 753-775.  The script calls
\* animate() right after init() (lines 13-14), while init waits for the
\* catalog: until setupScene has run, `scene` is undefined and the frame
\* throws at line 768, after it has asked for the next frame.
animateSingle ==
    /\ page = "single"
    /\ IF pc = "loading"
       THEN /\ planetMesh' = planetMesh
            /\ lastOp' = Op("animate", "-", "TypeError", "-")
       ELSE LET y == IF autoRotate /\ planetMesh # null
                     THEN (planetMesh.rotationY + 1) % Turn
                     ELSE IF planetMesh # null THEN planetMesh.rotationY ELSE 0 - 1
            IN  /\ planetMesh' = IF planetMesh # null
                                 THEN [planetMesh EXCEPT !.rotationY = y]
                                 ELSE planetMesh
                /\ lastOp' = Op("animate", "-", y, "-")
    /\ UNCHANGED <<page, systemVars, callVars, renderVars, frameVars, pc, planets, dualVars,
                   currentPlanetIndex, currentPlanet, rotationAxisLine, navButtons, pageVars>>

----------------------------------------------------------------------------
(* The render resources of the dual viewer with categories,                 *)
(* src/unnamed/part_002: what showPlanet creates and what it disposes       *)

Resource(kind, planetData) == [kind |-> kind, of |-> planetData]

\* What createPlanet (lines 562-583) creates for a record: a SphereGeometry,
\* a MeshPhongMaterial and the texture loadPlanetTexture returns.
createdByCreatePlanet(planetData) ==
    {Resource("geometry", planetData), Resource("material", planetData),
     Resource("texture", planetData)}

\* What showPlanet disposes of the mesh it replaces, lines 618-622: its
\* geometry and its material.
disposedOfMesh(mesh) ==
    IF mesh = null THEN {}
    ELSE {Resource("geometry", mesh.userData), Resource("material", mesh.userData)}

\* What showPlanet disposes of the axis it replaces, lines 624-631.
disposedOfAxis(axis) ==
    IF axis = null THEN {} ELSE {Resource("axis", axis.axisOf)}

\* The resources a viewer holds after showPlanet(viewer, index), lines 615-641.
showPlanetLive(held, v, index) ==
    IF index < 0 \/ index >= Len(v.availablePlanets) THEN held
    ELSE ((held \ disposedOfMesh(v.planetMesh)) \ disposedOfAxis(v.rotationAxisLine))
            \cup createdByCreatePlanet(v.availablePlanets[index + 1])
            \cup {Resource("axis", v.availablePlanets[index + 1])}

\* The resources a viewer holds after changePlanetCategory, lines 144-163.
changePlanetCategoryLive(held, v, category) ==
    LET categoryPlanets == getPlanetsForCategory(category)
    IN  IF Len(categoryPlanets) > 0
        THEN showPlanetLive(held, [v EXCEPT !.availablePlanets = categoryPlanets], 0)
        ELSE held

\* A handler bound to one viewer, with what it creates and disposes.
OnViewerLive(side, v, held, op) ==
    /\ Listening
    /\ viewer' = [viewer EXCEPT ![side] = v]
    /\ live' = [live EXCEPT ![side] = held]
    /\ lastOp' = op
    /\ UNCHANGED <<page, systemVars, callVars, frameVars, pc, planets, solarSystemPlanets, exoplanets,
                   lastFocusedViewer, syncActive, browserVars>>

\* The setTimeout callback of init(), lines 68-74.
initialCategoriesLive ==
    /\ page = "dual" /\ pc = "settling"
    /\ viewer' = [viewer EXCEPT
          !["left"] = changePlanetCategory(viewer["left"], "earth"),
          !["right"] = changePlanetCategory(viewer["right"], "jupiter")]
    /\ live' = [live EXCEPT
          !["left"] = changePlanetCategoryLive(live["left"], viewer["left"], "earth"),
          !["right"] = changePlanetCategoryLive(live["right"], viewer["right"], "jupiter")]
    /\ pc' = "running"
    /\ lastOp' = Op("initialCategories", "both", "-", "-")
    /\ UNCHANGED <<page, systemVars, callVars, frameVars, planets, solarSystemPlanets, exoplanets,
                   lastFocusedViewer, syncActive, browserVars>>

clickPrevLive(side) ==
    LET v == viewer[side]
    IN  OnViewerLive(side, previousPlanet(v),
                     IF v.currentPlanetIndex > 0
                     THEN showPlanetLive(live[side], v, v.currentPlanetIndex - 1)
                     ELSE live[side],
                     Op("previousPlanet", side, "-", v.currentPlanetIndex))

clickNextLive(side) ==
    LET v == viewer[side]
    IN  OnViewerLive(side, nextPlanet(v),
                     IF v.currentPlanetIndex < Len(v.availablePlanets) - 1
                     THEN showPlanetLive(live[side], v, v.currentPlanetIndex + 1)
                     ELSE live[side],
                     Op("nextPlanet", side, "-", v.currentPlanetIndex))

categoryChangeLive(side, category) ==
    LET v == viewer[side]
    IN  OnViewerLive(side, changePlanetCategory(v, category),
                     changePlanetCategoryLive(live[side], v, category),
                     Op("changePlanetCategory", side, category, v.currentPlanetIndex))

----------------------------------------------------------------------------
(* createPlanet and the habitability panel of src/unnamed/part_002, called  *)
(* on one record at a time                                                  *)

\* Radii a record can carry, in km: zero, below and at either side of the
\* two clamps of createPlanet, Earth's and Jupiter's.
RadiusValues == {0, 1000, 1911, 1912, 6371, 31855, 31856, 71492}

\* Orbital periods (hundredths of a day) and semi-major axes (thousandths of
\* an astronomical unit) a record can carry.
PeriodValues == {0, 1234, 36525, 433259}
AxisValues == {0, 250, 1000, 5203}

PlanetNames == {EarthName, JupiterName, <<"K">>}

\* The records the functions are called with: a name, with or without a
\* radius, with or without an ellipticalOrbit.
PlanetArgs ==
    LET named == {[name |-> n] : n \in PlanetNames}
        sized == named \cup {p @@ [radius |-> r] : p \in named, r \in RadiusValues}
    IN  sized \cup {p @@ [ellipticalOrbit |-> Orbit(t, a)] :
                        p \in sized, t \in PeriodValues, a \in AxisValues}

\* A JavaScript number: NaN, or a value in thousandths.
NaN == [nan |-> TRUE, milli |-> 0]
Num(milli) == [nan |-> FALSE, milli |-> milli]

Abs(x) == IF x < 0 THEN 0 - x ELSE x

\* The scores and temperatures the panel can show lie in 0..1000.
Roots == 0..1000

\* The largest whole t with t^2 <= x, and the largest whole c with c^3 <= x.
Sqrt(x) == CHOOSE t \in Roots : t * t <= x /\ x < (t + 1) * (t + 1)
Cbrt(x) == CHOOSE c \in Roots : c * c * c <= x /\ x < (c + 1) * (c + 1) * (c + 1)

\* `planet.ellipticalOrbit?.semiMajorAxis || 1.0`, in thousandths.
semiMajorAxisOr1(planet) ==
    IF "ellipticalOrbit" \in DOMAIN planet /\ planet.ellipticalOrbit.semiMajorAxis # 0
    THEN planet.ellipticalOrbit.semiMajorAxis
    ELSE 1000

\* `planet.ellipticalOrbit?.period || 365`, in hundredths of a day.
periodOr365(planet) ==
    IF "ellipticalOrbit" \in DOMAIN planet /\ planet.ellipticalOrbit.period # 0
    THEN planet.ellipticalOrbit.period
    ELSE 36500

\* calculateMockTemperature, lines 756-765, in kelvin:
\* 288 * semiMajorAxis^(-0.5) is the square root of 288^2 / semiMajorAxis.
calculateMockTemperature(planet) ==
    IF planet.name = EarthName THEN 288
    ELSE IF planet.name = JupiterName THEN 165
    ELSE Sqrt((288 * 288 * 1000) \div semiMajorAxisOr1(planet))

\* 1 - Math.abs((x - one) / (x + one)), in thousandths, for x + one > 0.
NearOne(x, one) == 1000 - (1000 * Abs(x - one)) \div (x + one)

\* Math.max(0, Math.min(1, x)) on thousandths.
Clamp01(x) == Max(0, Min(1000, x))

\* calculateMockESI, lines 767-785.  planet.radius / earthRadius is NaN for a
\* record without radius, and NaN goes through the arithmetic, Math.pow,
\* Math.min and Math.max unchanged.
calculateMockESI(planet) ==
    IF planet.name = EarthName THEN Num(1000)
    ELSE IF planet.name = JupiterName THEN Num(150)
    ELSE IF "radius" \notin DOMAIN planet THEN NaN
    ELSE LET radiusScore == NearOne(planet.radius, earthRadius)
             distanceScore == NearOne(semiMajorAxisOr1(planet), 1000)
             periodScore == NearOne(periodOr365(planet), 36525)
         IN  Num(Clamp01(Cbrt(radiusScore * distanceScore * periodScore)))

\* calculateMockHI, lines 787-806.
calculateMockHI(planet) ==
    IF planet.name = EarthName THEN Num(1000)
    ELSE IF planet.name = JupiterName THEN Num(50)
    ELSE IF "radius" \notin DOMAIN planet THEN NaN
    ELSE LET temp == calculateMockTemperature(planet)
             radiusScore ==
                 Max(0, 1000 - (2000 * Abs(planet.radius - earthRadius)) \div earthRadius)
             tempScore == Max(0, 1000 - (1000 * Abs(temp - 288)) \div 60)
         IN  Num(Clamp01((radiusScore + tempScore) \div 2))

\* updateHabitabilityPanel, lines 695-753, for a record without esi,
\* habitabilityIndex and temperature of its own: the three values it shows.
updateHabitabilityPanel(planet) ==
    [esiValue |-> calculateMockESI(planet),
     hiValue |-> calculateMockHI(planet),
     tempValue |-> calculateMockTemperature(planet)]

\* createPlanet called with planetArg.
callCreatePlanet ==
    /\ page = "call"
    /\ returned' = [of |-> "createPlanet", mesh |-> createPlanet(planetArg)]
    /\ UNCHANGED <<page, pc, planets, dualVars, browserVars, systemVars, renderVars, frameVars,
                   planetArg, lastOp>>

\* updateHabitabilityPanel called on a viewer whose currentPlanet is planetArg.
callUpdateHabitabilityPanel ==
    /\ page = "call"
    /\ returned' = [of |-> "updateHabitabilityPanel",
                    panel |-> updateHabitabilityPanel(planetArg)]
    /\ UNCHANGED <<page, pc, planets, dualVars, browserVars, systemVars, renderVars, frameVars,
                   planetArg, lastOp>>

----------------------------------------------------------------------------

Pages == {"dual", "compare", "browser", "system"}

\* The globals of a page script before its init() has run.
Loading ==
    /\ pc = "loading"
    /\ planets = <<>>
    /\ solarSystemPlanets = <<>>
    /\ exoplanets = <<>>
    /\ \E searchShown \in BOOLEAN :
          viewer = [s \in Sides |-> NewViewer(IF s = "left" THEN 0 ELSE 1, searchShown)]
    /\ lastFocusedViewer = "left"
    /\ syncActive = FALSE
    /\ currentPlanetIndex = 0
    /\ currentPlanet = null
    /\ planetMesh = null
    /\ rotationAxisLine = null
    /\ navButtons = [prevDisabled |-> FALSE, nextDisabled |-> FALSE]
    /\ currentPage = 0
    /\ planetsPerPage = 2 * PageUnit
    /\ filteredPlanets = <<>>
    /\ currentFilter = "all"
    /\ exoplanetData = <<>>
    /\ starSystems = <<>>
    /\ live = [s \in {"left", "right"} |-> {}]
    /\ currentSystem = overview
    /\ exoplanetMeshes = <<>>
    /\ sceneObjects = {}
    /\ habitableZoneObjects = {}
    /\ currentStar = null
    /\ cameraAnimating = FALSE
    /\ followingPlanet = null
    /\ cameraTransitions = <<>>
    /\ camera = CameraHome(overview)
    /\ position = <<>>
    /\ clock = 0
    /\ resetViewHidden = TRUE
    /\ autoRotate = FALSE
    /\ lastOp = Op("load", "-", <<>>, null)

Init ==
    /\ page \in Pages
    /\ Loading
    /\ planetArg = null
    /\ returned = null

OnDual == page = "dual"

OnCompare == page = "compare"

OnBrowser == page = "browser"

OnSystem == page = "system"

Next ==
    \/ OnDual /\ \E ok \in BOOLEAN, docs \in DualDocs : init(ok, docs.solar, docs.koi)
    \/ OnDual /\ initialCategories
    \/ OnDual /\ \E side \in Sides : clickPrev(side)
    \/ OnDual /\ \E side \in Sides : clickNext(side)
    \/ OnDual /\ \E side \in Sides : clickAutoRotate(side)
    \/ OnDual /\ \E side \in Sides : clickReset(side)
    \/ OnDual /\ \E side \in Sides : clickToggleInfo(side)
    \/ OnDual /\ \E side \in Sides, category \in Categories : categoryChange(side, category)
    \/ OnDual /\ \E side \in Sides, i \in 0..(Len(planets) - 1) : searchSelect(side, i)
    \/ OnDual /\ \E side \in Sides : dragCamera(side)
    \/ OnDual /\ \E side \in Sides : setFocus(side)
    \/ OnDual /\ \E code \in KeyCodes : handleKeyboard(code)
    \/ OnDual /\ clickSyncRotation
    \/ OnDual /\ resetBothCameras
    \/ OnCompare /\ \E koi \in Fetched(KoiDocs), kepler \in Fetched(KoiDocs),
                       legacy \in Fetched(LegacyDocs) : initCompare(koi, kepler, legacy)
    \/ OnCompare /\ \E side \in Sides : clickPrevCompare(side)
    \/ OnCompare /\ \E side \in Sides : clickNextCompare(side)
    \/ OnCompare /\ \E side \in Sides, value \in Queries : searchInput(side, value)
    \/ OnCompare /\ \E side \in Sides, value \in Queries : searchEnter(side, value)
    \/ OnBrowser /\ \E koi \in Fetched(KoiDocs), kepler \in Fetched(KoiDocs),
                       legacy \in Fetched(LegacyDocs) : initBrowser(koi, kepler, legacy)
    \/ OnBrowser /\ clickPrevBrowser
    \/ OnBrowser /\ clickNextBrowser
    \/ OnBrowser /\ \E i \in 0..(Len(filteredPlanets) - 1) : handlePlanetSelect(i)
    \/ OnBrowser /\ prevPage
    \/ OnBrowser /\ nextPage
    \/ OnBrowser /\ \E value \in FilterOptions : typeFilterChange(value)
    \/ OnBrowser /\ \E value \in PerPageOptions : perPageChange(value)
    \/ OnSystem /\ \E koi \in Fetched(KoiDocs), kepler \in Fetched(KoiDocs),
                      legacy \in Fetched(LegacyDocs) : initSystem(koi, kepler, legacy)

Spec == Init /\ [][Next]_vars

\* The dual viewer with categories with the render resources its viewers hold.
InitRender == Init /\ page = "dual"

NextRender ==
    \/ \E ok \in BOOLEAN, docs \in DualDocs : init(ok, docs.solar, docs.koi)
    \/ initialCategoriesLive
    \/ \E side \in Sides : clickPrevLive(side)
    \/ \E side \in Sides : clickNextLive(side)
    \/ \E side \in Sides, category \in Categories : categoryChangeLive(side, category)

SpecRender == InitRender /\ [][NextRender]_vars

\* The pages with their frame loops.
InitFrames ==
    /\ page \in {"system", "dual", "single"}
    /\ Loading
    /\ planetArg = null
    /\ returned = null

NextFrames ==
    \/ \E koi \in Fetched(SystemDocs) : initSystem(koi, FetchError, FetchError)
    \/ \E systemName \in DOMAIN starSystems \cup {overview} : systemSelectChange(systemName)
    \/ \E selectedObject \in Range(exoplanetMeshes) : clickObject(selectedObject)
    \/ clickResetView
    \/ \E type \in RandomTypes : clickAddPlanet(type)
    \/ frameSystem
    \/ \E ok \in BOOLEAN, docs \in DualDocs : init(ok, docs.solar, docs.koi)
    \/ initialCategories
    \/ \E side \in Sides : clickNext(side)
    \/ \E side \in Sides : clickAutoRotate(side)
    \/ \E side \in Sides, category \in Categories : categoryChange(side, category)
    \/ animateDual
    \/ \E koi \in Fetched({FullKoiDoc}) : initSingle(koi, FetchError, FetchError)
    \/ clickNextSingle
    \/ clickAutoRotateSingle
    \/ animateSingle

SpecFrames == InitFrames /\ [][NextFrames]_vars

\* The star-system view with its frames scheduled fairly: animate asks for the
\* next frame at the start of every frame (line 922), so the browser keeps
\* running frames for as long as the page is open.  Every frame changes the
\* time the frame is given, so a frame is a step that changes clock.  The
\* handlers are those that read or write the camera or redraw the scene: the
\* selector, the canvas click, the reset-view button and the frame.
InitSystem == InitFrames /\ page = "system"

NextSystem ==
    \/ \E koi \in Fetched(SystemDocs) : initSystem(koi, FetchError, FetchError)
    \/ \E systemName \in DOMAIN starSystems \cup {overview} : systemSelectChange(systemName)
    \/ \E selectedObject \in Range(exoplanetMeshes) : clickObject(selectedObject)
    \/ clickResetView
    \/ frameSystem

SpecSystemFair == InitSystem /\ [][NextSystem]_vars /\ WF_clock(frameSystem)

\* The functions of the dual viewer called on one record, whatever it holds.
InitCall ==
    /\ page = "call"
    /\ Loading
    /\ planetArg \in PlanetArgs
    /\ returned = null

NextCall ==
    \/ callCreatePlanet
    \/ callUpdateHabitabilityPanel

SpecCall == InitCall /\ [][NextCall]_vars

----------------------------------------------------------------------------
(* Properties *)

\* The candidate list of a side: availablePlanets in the dual viewer with
\* categories, the whole catalog in the dual viewer with text search.
CandidateList(side) ==
    IF page = "dual" THEN viewer[side].availablePlanets ELSE planets

\* C1: in the dual viewer, in every reachable state (from the end of init()
\* on, before the first planet is shown included), a viewer whose candidate
\* list is non-empty has 0 <= currentPlanetIndex < length of the list.
C1_IndexInRange ==
    (page \in {"dual", "compare"} /\ pc # "loading") =>
        \A side \in Sides :
            Len(CandidateList(side)) > 0 =>
                /\ 0 <= viewer[side].currentPlanetIndex
                /\ viewer[side].currentPlanetIndex < Len(CandidateList(side))

\* The state C1 fails in first: init() has ended, the right viewer holds the
\* one-record Jupiter list and still has the index 1 it was constructed with.
C1_RightStartsAtOne ==
    /\ page = "dual" /\ pc = "settling"
    /\ Len(viewer["right"].availablePlanets) = 1
    /\ viewer["right"].currentPlanetIndex = 1

\* The index a navigation call found, its result, and the length of the list
\* it moved in (next and previous leave the list as it is).
NavFrom == lastOp.from

NavIndex ==
    IF page = "browser" THEN currentPlanetIndex
    ELSE viewer[lastOp.side].currentPlanetIndex

NavLength ==
    IF page = "browser" THEN Len(planets) ELSE Len(CandidateList(lastOp.side))

IsNext ==
    \/ lastOp.op = "nextPlanet"
    \/ lastOp.op = "handleKeyboard" /\ lastOp.arg = "ArrowRight"

IsPrevious ==
    \/ lastOp.op = "previousPlanet"
    \/ lastOp.op = "handleKeyboard" /\ lastOp.arg = "ArrowLeft"

\* C2: navigation never wraps: in a list of length n >= 1, previous() at
\* index 0 and next() at index n - 1 leave the index as it is, and every
\* other next() / previous() moves it by exactly +1 / -1.
C2_NeverWraps ==
    /\ (IsNext /\ NavLength >= 1) =>
           NavIndex = IF NavFrom = NavLength - 1 THEN NavFrom ELSE NavFrom + 1
    /\ (IsPrevious /\ NavLength >= 1) =>
           NavIndex = IF NavFrom = 0 THEN NavFrom ELSE NavFrom - 1

\* What C2 does hold of: a call that finds the index inside the list.
C2_InRangeNeverWraps ==
    ((IsNext \/ IsPrevious) /\ NavLength >= 1
        /\ 0 <= NavFrom /\ NavFrom < NavLength) =>
        /\ IsNext =>
               NavIndex = IF NavFrom = NavLength - 1 THEN NavFrom ELSE NavFrom + 1
        /\ IsPrevious =>
               NavIndex = IF NavFrom = 0 THEN NavFrom ELSE NavFrom - 1

\* The record a viewer displays and the mesh it renders are those of rec.
Displays(v, rec) ==
    /\ v.currentPlanet = rec
    /\ v.planetMesh # null
    /\ v.planetMesh.userData = rec

\* C3: in the dual viewer, a category change on a viewer that yields a
\* non-empty list leaves that viewer at index 0, displaying the first record
\* of the new list, whatever its index was before.
C3_CategoryChangeSelectsFirst ==
    (page = "dual" /\ lastOp.op = "changePlanetCategory") =>
        LET v == viewer[lastOp.side]
            categoryPlanets == getPlanetsForCategory(lastOp.arg)
        IN  /\ v.availablePlanets = categoryPlanets
            /\ Len(categoryPlanets) > 0 =>
                   /\ v.currentPlanetIndex = 0
                   /\ Displays(v, categoryPlanets[1])

\* A category change to a non-empty list on a viewer that displayed the
\* record at index 1.
C3_Witness ==
    /\ page = "dual" /\ pc = "running" /\ lastOp.op = "changePlanetCategory"
    /\ lastOp.from = 1
    /\ Len(viewer[lastOp.side].availablePlanets) > 0
    /\ viewer[lastOp.side].currentPlanetIndex = 0

\* C4: a category change that yields an empty list leaves the viewer with no
\* selected or displayed record: the planet shown before is no longer the
\* viewer's current planet and is no longer rendered.
C4_EmptyCategoryClearsViewer ==
    (page = "dual" /\ lastOp.op = "changePlanetCategory"
        /\ Len(viewer[lastOp.side].availablePlanets) = 0) =>
        /\ viewer[lastOp.side].currentPlanet = null
        /\ viewer[lastOp.side].planetMesh = null
        /\ ~animatesPlanet(viewer[lastOp.side])

\* The indices C5 hands to select: below, inside and above
\* every list of the model.
SelectArgs == (0 - 2)..(MaxCatalog + 2)

\* C5: select(index) with an index outside [0, length of the candidate list)
\* - negative, >= length, or any index on an empty list - changes nothing:
\* index, displayed record, render resources and navigation flags stay.
C5_OutOfRangeSelectIsNoOp ==
    /\ \A index \in SelectArgs :
          /\ page = "dual" =>
                \A side \in Sides :
                    (index < 0 \/ index >= Len(viewer[side].availablePlanets)) =>
                        showPlanet(viewer[side], index) = viewer[side]
          /\ page = "compare" =>
                \A side \in Sides :
                    (index < 0 \/ index >= Len(planets)) =>
                        showPlanetCompare(viewer[side], index) = viewer[side]
          /\ page = "browser" =>
                ((index < 0 \/ index >= Len(planets)) =>
                    showPlanetBrowser(planets, Selection, index) = Selection)
    /\ (page = "dual" /\ lastOp.op = "searchSelect"
          /\ lastOp.arg >= Len(viewer[lastOp.side].availablePlanets)) =>
          viewer[lastOp.side] = lastOp.from

\* A search select that named an index beyond the viewer's list has run.
C5_Witness ==
    /\ page = "dual" /\ lastOp.op = "searchSelect"
    /\ Len(viewer[lastOp.side].availablePlanets) > 0
    /\ lastOp.arg >= Len(viewer[lastOp.side].availablePlanets)
    /\ viewer[lastOp.side] = lastOp.from

\* C6: a search selects a record only when its query has exactly one match:
\* with no match, with several, and with the empty query, typed or submitted
\* with Enter, the viewer's index and displayed record stay as they were.
C6_SearchSelectsOnlyUniqueMatch ==
    (page = "compare" /\ lastOp.op \in {"searchInput", "searchEnter"}
        /\ lastOp.arg # "one") =>
        viewer[lastOp.side] = lastOp.from

\* C7: syncRotation sets both viewers' autoRotate to the negation of the left
\* viewer's value before the call, whatever the right viewer's was; two calls
\* in a row leave both at the left viewer's original value.
C7_SyncRotationFollowsLeft ==
    page = "dual" =>
        /\ lastOp.op = "syncRotation" =>
               \A side \in Sides : viewer[side].autoRotate = ~lastOp.from.left
        /\ \A side \in Sides :
               /\ syncRotation(viewer)[side].autoRotate = ~viewer["left"].autoRotate
               /\ syncRotation(syncRotation(viewer))[side].autoRotate =
                      viewer["left"].autoRotate

\* A sync click that found the two viewers' flags different.
C7_Witness ==
    /\ page = "dual" /\ lastOp.op = "syncRotation"
    /\ lastOp.from.left # lastOp.from.right
    /\ viewer["left"].autoRotate = viewer["right"].autoRotate

\* C8: once sync rotation has been toggled on, the two autoRotate flags stay
\* equal after every individual toggle, by button or by Space, for as long
\* as sync is active.
C8_SyncStaysAligned ==
    (page = "dual" /\ syncActive) =>
        viewer["left"].autoRotate = viewer["right"].autoRotate

\* The state of a viewer that selection and rotation make up.
Watched(v) ==
    <<v.availablePlanets, v.currentPlanetIndex, v.currentPlanet, v.planetMesh,
      v.autoRotate>>

FocusedSide == IF lastFocusedViewer = "left" THEN "left" ELSE "right"

\* What a step of the dual viewer does to the focus and with a key.
FocusStep ==
    page = "dual" =>
        /\ lastOp'.op = "setFocus" => lastFocusedViewer' = lastOp'.side
        /\ lastOp'.op # "setFocus" => lastFocusedViewer' = lastFocusedViewer
        /\ lastOp'.op = "handleKeyboard" =>
               /\ viewer'[FocusedSide] = keyCommand(lastOp'.arg, viewer[FocusedSide])
               /\ viewer'[Other(FocusedSide)] = viewer[Other(FocusedSide)]

\* C9: the focused side is 'left' until a panel is clicked and from then on
\* the side of the panel clicked last; every key command (ArrowLeft,
\* ArrowRight, Space, R, I) is applied to the focused viewer and to no other.
C9_KeysGoToFocusedViewer ==
    /\ lastFocusedViewer = "left"
    /\ [][FocusStep]_vars

\* ArrowRight, pressed after a click on the right panel, moved the right
\* viewer from index 0 to index 1 and left the left viewer at index 0.
C9_Witness ==
    /\ page = "dual" /\ lastOp.op = "handleKeyboard" /\ lastOp.arg = "ArrowRight"
    /\ lastFocusedViewer = "right"
    /\ lastOp.from = 0
    /\ viewer["right"].currentPlanetIndex = 1
    /\ viewer["left"].currentPlanetIndex = 0

\* The handlers directed at one side.
SideOps ==
    {"previousPlanet", "nextPlanet", "toggleAutoRotate", "resetCamera", "toggleInfo",
     "changePlanetCategory", "searchSelect", "dragCamera", "handleKeyboard"}

\* What a step of the dual viewer, taken by a listener, does to the side it
\* is not directed at.
IndependenceStep ==
    (page = "dual" /\ pc' = pc) =>
        /\ lastOp'.op \in SideOps =>
               viewer'[Other(lastOp'.side)] = viewer[Other(lastOp'.side)]
        /\ (\A side \in Sides : Watched(viewer'[side]) # Watched(viewer[side])) =>
               lastOp'.op = "syncRotation"
        /\ (\A side \in Sides : viewer'[side] # viewer[side]) =>
               lastOp'.op \in {"syncRotation", "resetBothCameras"}

\* C10: an operation directed at one side (category change, next, previous,
\* select, individual toggleAutoRotate, a key) leaves the other side's list,
\* index, displayed record and autoRotate as they were; syncRotation alone
\* writes them on both sides.
C10_ViewersIndependent == [][IndependenceStep]_vars

\* A category change on the left viewer has run and the two viewers hold
\* different lists, the right one still displaying its own first record.
C10_Witness ==
    /\ page = "dual" /\ pc = "running"
    /\ lastOp.op = "changePlanetCategory" /\ lastOp.side = "left"
    /\ viewer["left"].availablePlanets # viewer["right"].availablePlanets
    /\ Len(viewer["right"].availablePlanets) > 0
    /\ Displays(viewer["right"], viewer["right"].availablePlanets[1])
    /\ Displays(viewer["left"], viewer["left"].availablePlanets[1])

\* The selection of a viewer: its list, its index, the record it displays
\* and the mesh and axis it renders.
SelectionOf(v) ==
    <<v.availablePlanets, v.currentPlanetIndex, v.currentPlanet, v.planetMesh,
      v.rotationAxisLine>>

\* The step is a toggleAutoRotate or a resetCamera, by button or by key.
IsToggleOrReset(op) ==
    \/ op.op \in {"toggleAutoRotate", "resetCamera"}
    \/ op.op = "handleKeyboard" /\ op.arg \in {"Space", "KeyR"}

\* What a toggleAutoRotate, a resetCamera or a resetBothCameras step leaves
\* alone, and what it does.
RotationAndCameraStep ==
    page = "dual" =>
        /\ (IsToggleOrReset(lastOp') \/ lastOp'.op = "resetBothCameras") =>
               \A side \in Sides : SelectionOf(viewer'[side]) = SelectionOf(viewer[side])
        /\ (lastOp'.op = "toggleAutoRotate"
               \/ (lastOp'.op = "handleKeyboard" /\ lastOp'.arg = "Space")) =>
               viewer'[lastOp'.side].autoRotate = ~viewer[lastOp'.side].autoRotate
        /\ lastOp'.op = "resetBothCameras" =>
               \A side \in Sides :
                   /\ viewer'[side].autoRotate = viewer[side].autoRotate
                   /\ viewer'[side].cameraHome

\* C11: toggleAutoRotate, resetCamera and resetBothCameras never change any
\* viewer's list, index or displayed record, and resetBothCameras leaves
\* both autoRotate flags as they are.
C11_RotationAndCameraKeepSelection == [][RotationAndCameraStep]_vars

\* resetBothCameras has brought back two moved cameras while the viewers
\* rotate differently and the left one displays the record at index 1.
C11_Witness ==
    /\ page = "dual" /\ lastOp.op = "resetBothCameras"
    /\ ~lastOp.from.left /\ ~lastOp.from.right
    /\ viewer["left"].autoRotate # viewer["right"].autoRotate
    /\ viewer["left"].currentPlanetIndex = 1
    /\ Displays(viewer["left"], viewer["left"].availablePlanets[2])

----------------------------------------------------------------------------
(* Catalog loading *)

FallbackPages == {"compare", "browser", "system"}

\* The state init() leaves behind on a page whose loader has fallbacks.
JustLoaded == page \in FallbackPages /\ lastOp.op = "init"

\* The catalog a page's script holds.
Catalog == IF page = "system" THEN exoplanetData ELSE planets

\* What a page's loader makes of the document of one source.
Normalized(attempt) ==
    IF page = "system"
    THEN IF attempt.source = "exoplanetData.json"
         THEN attempt.json
         ELSE convertCatalog(attempt.json)
    ELSE IF attempt.source = "exoplanetData.json"
         THEN convertLegacy(attempt.json)
         ELSE attempt.json

\* C12: a loader fetches koiData.json, keplerData.json and exoplanetData.json
\* strictly in this order; it fetches a document only after every document
\* before it failed, fetches nothing after the first success, goes on to the
\* next document after a failure, and the catalog is what it makes of the
\* first document that succeeded.
C12_SourcesInOrderUntilFirstSuccess ==
    JustLoaded =>
        LET log == lastOp.arg
        IN  /\ Len(log) \in 1..3
            /\ \A k \in 1..Len(log) : log[k].source = Sources[k]
            /\ \A k \in 1..(Len(log) - 1) : ~log[k].ok
            /\ Len(log) < 3 => log[Len(log)].ok
            /\ log[Len(log)].ok => Catalog = Normalized(log[Len(log)])

\* The KOI document failed, the Kepler document succeeded with two records:
\* the legacy document was not asked for and the catalog is the Kepler one.
C12_Witness ==
    /\ JustLoaded
    /\ Len(lastOp.arg) = 2
    /\ ~lastOp.arg[1].ok
    /\ lastOp.arg[2].ok
    /\ Len(lastOp.arg[2].json) = 2
    /\ Len(Catalog) = 2

\* Every document the loader asked for failed.
AllSourcesFailed ==
    /\ JustLoaded
    /\ Len(lastOp.arg) = 3
    /\ \A k \in 1..3 : ~lastOp.arg[k].ok

\* C13: once init has loaded the catalog no page holds an empty one, and a
\* loader whose sources all failed yields exactly one record, the placeholder.
C13_CatalogNeverEmpty ==
    pc # "loading" =>
        /\ Len(Catalog) > 0
        /\ AllSourcesFailed => Catalog = <<ExamplePlanet>>

\* The dual viewer with text search after all three sources failed: its
\* catalog is empty and neither viewer displays a record.
C13_Witness ==
    /\ page = "compare"
    /\ AllSourcesFailed
    /\ planets = <<>>
    /\ viewer["left"].currentPlanet = null

\* C14: every record of a loaded catalog has a positive radius and a positive
\* orbital period.
C14_LoadedRecordsArePositive ==
    (page # "system" /\ pc # "loading") =>
        \A i \in 1..Len(planets) :
            /\ planets[i].radius > 0
            /\ planets[i].ellipticalOrbit.period > 0

\* The catalog browser took a KOI document as it came and displays its
\* record of radius 0.
C14_Witness ==
    /\ page = "browser"
    /\ JustLoaded
    /\ lastOp.arg[1].ok
    /\ currentPlanet # null
    /\ currentPlanet.radius = 0

----------------------------------------------------------------------------
(* The catalog browser's pages *)

\* The index of the last page of the filtered list.
LastPage == Max(0, CeilDiv(Len(filteredPlanets), planetsPerPage) - 1)

\* C15: in the catalog browser 0 <= currentPage <= max(0, ceil(
\* filteredPlanets.length / planetsPerPage) - 1) in every state, and every
\* change of the type filter or of the page size leaves currentPage at 0.
C15_PageInRange ==
    page = "browser" =>
        /\ 0 <= currentPage
        /\ currentPage <= LastPage
        /\ lastOp.op \in {"typeFilterChange", "perPageChange"} => currentPage = 0

\* A type filter without records was chosen on the second page.
C15_Witness ==
    /\ page = "browser"
    /\ lastOp.op = "typeFilterChange"
    /\ lastOp.from = 1
    /\ filteredPlanets = <<>>
    /\ currentPage = 0

\* A step of the catalog browser: paging keeps the selection, navigation and
\* selection keep the page.
PagingAndSelectionStep ==
    page = "browser" =>
        /\ lastOp'.op \in {"prevPage", "nextPage"} =>
              /\ currentPlanetIndex' = currentPlanetIndex
              /\ currentPlanet' = currentPlanet
        /\ lastOp'.op \in {"previousPlanet", "nextPlanet", "handlePlanetSelect"} =>
              currentPage' = currentPage

\* C16: in the catalog browser nextPage and previousPage never change the
\* selected planet (currentPlanetIndex, currentPlanet), and next(), previous()
\* and select never change currentPage.
C16_PagingAndSelectionAreSeparate == [][PagingAndSelectionStep]_vars

\* next-page moved from the first to the second page while the record at
\* index 1 was displayed, and it still is.
C16_Witness ==
    /\ page = "browser"
    /\ lastOp.op = "nextPage"
    /\ lastOp.from = 0
    /\ currentPage = 1
    /\ currentPlanetIndex = 1
    /\ currentPlanet = planets[2]

\* The records of the catalog that have the chosen type, in catalog order.
OfChosenType ==
    IF currentFilter = "all" THEN planets
    ELSE SelectSeq(planets, LAMBDA planet : planet.type = currentFilter)

InFiltered(rec) == \E i \in 1..Len(filteredPlanets) : filteredPlanets[i] = rec

\* C17: after a change of the type filter the candidate list is exactly the
\* records of the chosen type and, when it is not empty, its first record is
\* the displayed one; a next() or previous() that moves afterwards lands on a
\* record of the filtered list.
C17_FilterReselectsFirst ==
    page = "browser" =>
        /\ lastOp.op = "typeFilterChange" =>
              /\ currentFilter = lastOp.arg
              /\ filteredPlanets = OfChosenType
              /\ Len(filteredPlanets) > 0 => currentPlanet = filteredPlanets[1]
        /\ (/\ lastOp.op \in {"nextPlanet", "previousPlanet"}
            /\ currentPlanetIndex # lastOp.from) => InFiltered(currentPlanet)

\* The filter was set to a type that has records while a record of another
\* type was displayed, and that record is displayed still.
C17_Witness ==
    /\ page = "browser"
    /\ lastOp.op = "typeFilterChange"
    /\ Len(filteredPlanets) > 0
    /\ filteredPlanets = OfChosenType
    /\ currentPlanet # null
    /\ currentPlanet.type # currentFilter
    /\ currentFilter # "all"

----------------------------------------------------------------------------
(* Navigation buttons of the dual viewer *)

\* The handlers that select, step or change the category of one viewer.
IsViewerOp(op) ==
    \/ op.op \in {"previousPlanet", "nextPlanet", "changePlanetCategory", "searchSelect"}
    \/ op.op = "handleKeyboard" /\ op.arg \in {"ArrowLeft", "ArrowRight"}

Selected(v) == <<v.currentPlanetIndex, v.currentPlanet>>

\* C18: after every select, next, previous or category change on a viewer
\* its 'previous' button is enabled exactly when previous() would change the
\* selection, and its 'next' button exactly when next() would.
C18_NavFlagsAgree ==
    (page = "dual" /\ IsViewerOp(lastOp)) =>
        LET v == viewer[lastOp.side]
        IN  /\ ~v.prevDisabled <=> Selected(previousPlanet(v)) # Selected(v)
            /\ ~v.nextDisabled <=> Selected(nextPlanet(v)) # Selected(v)

\* A viewer that displayed a record was given a category without records:
\* its 'next' button is enabled and next() does nothing.
C18_Witness ==
    /\ page = "dual"
    /\ pc = "running"
    /\ lastOp.op = "changePlanetCategory"
    /\ viewer[lastOp.side].availablePlanets = <<>>
    /\ viewer[lastOp.side].currentPlanet # null
    /\ ~viewer[lastOp.side].nextDisabled
    /\ nextPlanet(viewer[lastOp.side]) = viewer[lastOp.side]

----------------------------------------------------------------------------
(* Sizes and habitability values *)

CreatedMesh == returned # null /\ returned.of = "createPlanet"

\* C19: createPlanet's scaleFactor is radius / 6371 clamped to [0.3, 5.0],
\* an absent or zero radius counting as 6371; it is 1.0 for radius 6371 and
\* 5.0 for radius 71492.
C19_ScaleFactorClamped ==
    CreatedMesh =>
        LET factor == returned.mesh.scaleFactor
            radius == IF "radius" \in DOMAIN planetArg /\ planetArg.radius # 0
                      THEN planetArg.radius
                      ELSE 6371
        IN  /\ 3 * ScaleOne <= 10 * factor
            /\ factor <= 5 * ScaleOne
            /\ (3 * 6371 <= 10 * radius /\ radius <= 5 * 6371) =>
                  factor * 6371 = radius * ScaleOne
            /\ 10 * radius < 3 * 6371 => 10 * factor = 3 * ScaleOne
            /\ radius > 5 * 6371 => factor = 5 * ScaleOne
            /\ radius = 6371 => factor = ScaleOne
            /\ radius = 71492 => factor = 5 * ScaleOne

\* createPlanet was called with a record of radius 71492 and built a mesh
\* of scale factor 5.0.
C19_Witness ==
    /\ CreatedMesh
    /\ "radius" \in DOMAIN planetArg
    /\ planetArg.radius = 71492
    /\ returned.mesh.scaleFactor = 5 * ScaleOne

ShownPanel == returned # null /\ returned.of = "updateHabitabilityPanel"

InUnitRange(x) == ~x.nan /\ 0 <= x.milli /\ x.milli <= 1000

MeanOfScores(radius, T) ==
    LET radiusPart == (2000 * (IF radius < 6371 THEN 6371 - radius ELSE radius - 6371)) \div 6371
        tempPart == (1000 * (IF T < 288 THEN 288 - T ELSE T - 288)) \div 60
        radiusScore == IF radiusPart > 1000 THEN 0 ELSE 1000 - radiusPart
        tempScore == IF tempPart > 1000 THEN 0 ELSE 1000 - tempPart
        mean == (radiusScore + tempScore) \div 2
    IN  IF mean < 0 THEN 0 ELSE IF mean > 1000 THEN 1000 ELSE mean

\* C21: for every record with a radius, those named Earth and Jupiter
\* included, the habitability index is the clamped mean of the radius score
\* and the temperature score, T being the record's equilibrium temperature.
C21_HabitabilityIndexIsMean ==
    (ShownPanel /\ "radius" \in DOMAIN planetArg) =>
        /\ ~returned.panel.hiValue.nan
        /\ returned.panel.hiValue.milli =
               MeanOfScores(planetArg.radius, returned.panel.tempValue)

\* The panel was computed for the record named Jupiter with radius 71492
\* and shows the habitability index 0.05 at 165 K.
C21_Witness ==
    /\ ShownPanel
    /\ planetArg.name = JupiterName
    /\ "radius" \in DOMAIN planetArg
    /\ planetArg.radius = 71492
    /\ returned.panel.tempValue = 165
    /\ returned.panel.hiValue = Num(50)

----------------------------------------------------------------------------
(* Render resources *)

\* The records a viewer holds undisposed resources of.
LiveOwners(side) == {r.of : r \in live[side]}

\* C22: at any time each viewer holds live render resources (geometry,
\* material, texture, rotation axis) of at most one planet: an accepted
\* select releases all resources of the planet shown before.
C22_AtMostOnePlanetLive ==
    page = "dual" => \A side \in Sides : Cardinality(LiveOwners(side)) <= 1

\* next() moved a viewer to another record: the geometry, material and axis
\* of the record shown before are disposed, its texture is not.
C22_Witness ==
    /\ page = "dual"
    /\ lastOp.op = "nextPlanet"
    /\ LET side == lastOp.side
           v == viewer[side]
           before == v.availablePlanets[lastOp.from + 1]
       IN  /\ v.currentPlanetIndex = lastOp.from + 1
           /\ Resource("texture", before) \in live[side]
           /\ Resource("geometry", before) \notin live[side]
           /\ Resource("axis", before) \notin live[side]
           /\ Resource("geometry", v.currentPlanet) \in live[side]

----------------------------------------------------------------------------
(* The search list of the dual viewer *)

\* A choice from a search list that showPlanet accepted has run.
AcceptedSearchChoice ==
    /\ page = "dual"
    /\ lastOp.op = "searchSelect"
    /\ lastOp.arg < Len(lastOp.from.availablePlanets)

\* C27: whenever a choice i from a viewer's search list is accepted, the
\* record displayed afterwards is planets[i], the catalog record the list
\* entry names, in every state in which the list can be used.
C27_SearchChoiceShowsCatalogRecord ==
    AcceptedSearchChoice =>
        viewer[lastOp.side].currentPlanet = planets[lastOp.arg + 1]

\* Entry 0 of the search list was chosen before the timer of init set the
\* categories: the viewer displays the first record of its own list.
C27_Witness ==
    /\ AcceptedSearchChoice
    /\ pc = "settling"
    /\ lastOp.arg = 0
    /\ viewer[lastOp.side].currentPlanet = lastOp.from.availablePlanets[1]
    /\ viewer[lastOp.side].currentPlanetIndex = 0

----------------------------------------------------------------------------
(* Camera transitions of the star-system view *)

\* A click hit a planet while a camera transition was in progress.
PlanetClickedDuringTransition ==
    /\ page = "system"
    /\ lastOp.op = "onMouseClick"
    /\ lastOp.from.cameraAnimating
    /\ lastOp.arg[1].of.type # "system"

\* C23: when a planet is selected while a camera transition is in progress,
\* the prior transition is cancelled and a transition to the newly selected
\* planet runs in its place, so that the camera ends on the planet selected
\* last.
C23_SelectionDuringTransitionRetargets ==
    PlanetClickedDuringTransition =>
        /\ Len(cameraTransitions) = 1
        /\ cameraTransitions[1].planet = lastOp.arg[1]

\* A planet was clicked while the camera was on its way to another planet:
\* the transition that waits is still the one to the other planet.
C23_Witness ==
    /\ PlanetClickedDuringTransition
    /\ Len(cameraTransitions) = 1
    /\ cameraTransitions[1].planet # null
    /\ cameraTransitions[1].planet # lastOp.arg[1]
    /\ cameraAnimating

\* C24: at most one camera transition (of centerCameraOnPlanet or of
\* animateCameraToSystemView) is in progress at any time, and one is in
\* progress exactly while cameraAnimating is true: no planet click, reset-view
\* click or frame starts a second one.
C24_AtMostOneTransition ==
    page = "system" =>
        /\ Len(cameraTransitions) <= 1
        /\ cameraAnimating <=> Len(cameraTransitions) = 1

\* The reset-view button was clicked while a transition to a planet was in
\* progress: that transition is the only one that waits.
C24_Witness ==
    /\ page = "system"
    /\ lastOp.op = "resetSystemView"
    /\ lastOp.from.cameraAnimating
    /\ Len(cameraTransitions) = 1
    /\ cameraTransitions[1].planet # null

----------------------------------------------------------------------------
(* The scene of the star-system view across system changes *)

\* C28: whenever followingPlanet is non-null it is a planet mesh of the
\* system displayed now, a member of `exoplanets`, whatever the interleaving
\* of planet clicks, system changes and frames.
C28_FollowedPlanetIsDisplayed ==
    (page = "system" /\ followingPlanet # null) =>
        followingPlanet \in Range(exoplanetMeshes)

\* A frame completed a transition whose planet an earlier showSystem call had
\* removed: the camera follows a mesh that is not in `exoplanets`.
C28_Witness ==
    /\ page = "system"
    /\ lastOp.op = "animate"
    /\ lastOp.from.cameraAnimating
    /\ ~cameraAnimating
    /\ followingPlanet # null
    /\ followingPlanet.view = "earlier"
    /\ followingPlanet \notin Range(exoplanetMeshes)
    /\ followingPlanet \notin sceneObjects

\* C29: after showSystem the scene holds no object made for a view shown
\* before: every planet, atmosphere, habitable-zone ring, central star and
\* orbit ring of earlier views has been removed, for any sequence of system
\* changes and add-planet clicks.
C29_SceneHoldsCurrentViewOnly ==
    page = "system" => \A object \in sceneObjects : object.view = "current"

\* showSystem ran after a system with planets was displayed: the orbit rings
\* of that view are still in the scene, its other objects are not.
C29_Witness ==
    /\ page = "system"
    /\ lastOp.op = "showSystem"
    /\ \E object \in sceneObjects : object.view = "earlier" /\ object.kind = "orbit"
    /\ \A object \in sceneObjects : object.view = "earlier" => object.kind = "orbit"

----------------------------------------------------------------------------
(* Animation frames *)

\* The frame moves mesh m of the star-system view along its orbit.
MovesInFrame(m) ==
    /\ currentSystem # overview
    /\ m.of.type # "system"
    /\ \E i \in 1..Len(systemPlanetsOf(SceneState, starSystems)) :
          systemPlanetsOf(SceneState, starSystems)[i].name = m.of.name

\* C25: within each animation frame the rotation and orbital-position update
\* of a viewer's planets is applied before the camera follow is recomputed
\* and before that viewer's render call, and the camera follow is not written
\* in a frame in which a camera transition is in progress.
C25_UpdateThenFollowThenRender ==
    /\ (page = "system" /\ lastOp.op = "animate") =>
          LET drawn == lastOp.arg[1]
              before == lastOp.from
          IN  /\ \A m \in Range(exoplanetMeshes) :
                    MovesInFrame(m) => drawn.position[m] = clock
              /\ drawn.camera =
                    IF before.followingPlanet # null /\ ~before.cameraAnimating
                    THEN CameraOnPlanet(before.followingPlanet,
                                        drawn.position[before.followingPlanet])
                    ELSE before.camera
    /\ (page = "dual" /\ lastOp.op = "animate") =>
          \A side \in Sides :
              /\ lastOp.arg[side] = renderViewer(viewer[side])
              /\ (viewer[side].planetMesh # null /\ viewer[side].currentPlanet # null) =>
                    lastOp.arg[side] =
                        (lastOp.from[side] + finalRotationSpeed(viewer[side])) % Turn
    /\ (page = "single" /\ lastOp.op = "animate" /\ pc = "running" /\ planetMesh # null) =>
          lastOp.arg = planetMesh.rotationY

\* A frame of the star-system view ran while the camera followed a planet of
\* the displayed system and no transition was in progress: the planet moved
\* and the camera that was drawn stands beside the planet's new position.
C25_Witness ==
    /\ page = "system"
    /\ lastOp.op = "animate"
    /\ ~lastOp.from.cameraAnimating
    /\ lastOp.from.followingPlanet # null
    /\ lastOp.from.followingPlanet \in Range(exoplanetMeshes)
    /\ MovesInFrame(lastOp.from.followingPlanet)
    /\ lastOp.arg[1].camera = CameraOnPlanet(lastOp.from.followingPlanet, clock)
    /\ lastOp.arg[1].camera # lastOp.from.camera

\* C26: in every page variant no animation frame and no input handler runs
\* before the initial catalog load has completed: while init() waits for
\* loadPlanetData nothing but the page load has happened.
C26_NothingRunsBeforeLoad ==
    pc = "loading" => lastOp.op = "load"

\* A frame of the single viewer ran while init() was waiting for the
\* catalog: no catalog, no scene, no planet.
C26_Witness ==
    /\ page = "single"
    /\ pc = "loading"
    /\ lastOp.op = "animate"
    /\ lastOp.arg = "TypeError"
    /\ planets = <<>>
    /\ planetMesh = null

\* A planet click or a reset-view click that finds no transition in progress
\* starts one.
AcceptedWhenIdle ==
    /\ (/\ page = "system" /\ lastOp.op = "onMouseClick"
        /\ ~lastOp.from.cameraAnimating
        /\ lastOp.arg[1].of.type # "system") =>
            /\ cameraAnimating
            /\ Len(cameraTransitions) = 1
            /\ cameraTransitions[1].planet = lastOp.arg[1]
    /\ (/\ page = "system" /\ lastOp.op = "resetSystemView"
        /\ ~lastOp.from.cameraAnimating) =>
            /\ cameraAnimating
            /\ Len(cameraTransitions) = 1
            /\ cameraTransitions[1].planet = null

\* C30: with frames scheduled fairly and time advancing, every camera
\* transition that starts completes and sets cameraAnimating to false, after
\* which clicks are accepted again: cameraAnimating never stays true.
C30_TransitionsComplete ==
    /\ (page = "system" /\ cameraAnimating) ~> (~cameraAnimating /\ cameraTransitions = <<>>)
    /\ [](AcceptedWhenIdle)

\* A planet click was accepted while the camera followed a planet: the
\* transition that led to that planet has completed and a new one has started.
C30_Witness ==
    /\ page = "system"
    /\ lastOp.op = "onMouseClick"
    /\ ~lastOp.from.cameraAnimating
    /\ followingPlanet # null
    /\ cameraAnimating
    /\ Len(cameraTransitions) = 1
    /\ cameraTransitions[1].left = TransitionFrames

====
